---- MODULE Spec2Model ----
(***************************************************************************)
(* Typpete: constraint generation of the statement inferrer                *)
(* (typpete/stmt_inferrer.py) over the Context tree, and the class         *)
(* pre-analysis (typpete/pre_analysis.py): C3 linearization and attribute  *)
(* propagation to subclasses.                                              *)
(***************************************************************************)
EXTENDS Integers, Sequences, FiniteSets, TLC

(* ----------------------------- bounds ---------------------------------- *)
\* number of statements the traversal infers in one run
MaxStmts == 3
\* nesting depth of if/while constructs
MaxDepth == 2

(* ------------------------- type algebra -------------------------------- *)
\* Every type is a record [k, n, args]: a solver symbol, a constant, or a
\* constructor applied to argument types.
Sym(n) == [k |-> "sym", n |-> n, args |-> <<>>]
ConstT(name) == [k |-> name, n |-> 0, args |-> <<>>]
NoneT == ConstT("none")
TupleT(ts) == [k |-> "tuple", n |-> Len(ts), args |-> ts]
ListT(t) == [k |-> "list", n |-> 0, args |-> <<t>>]
\* the type the expression inferrer gives a subscript expression v[..]
ElemT(t) == [k |-> "elem", n |-> 0, args |-> <<t>>]

\* a constraint handed to solver.add / solver.optimize.add_soft
Axiom(name, ts) == [ax |-> name, args |-> ts, weight |-> 0]
Soft(name, ts, w) == [ax |-> name, args |-> ts, weight |-> w]

(* ----------------------------- AST ------------------------------------- *)
Names == {"x", "y"}
ValueTypes == {"int", "str"}

Name(id) == [k |-> "Name", id |-> id, elts |-> <<>>]
Subscript(id) == [k |-> "Subscript", id |-> id, elts |-> <<>>]
Attribute(id) == [k |-> "Attribute", id |-> id, elts |-> <<>>]
TupleN(elts) == [k |-> "Tuple", id |-> "", elts |-> elts]
ListN(elts) == [k |-> "List", id |-> "", elts |-> elts]
NoNode == [k |-> "", id |-> "", elts |-> <<>>]
\* a literal constant of the given type, as the value of an assignment
Constant(id) == [k |-> "Constant", id |-> id, elts |-> <<>>]

\* assignment targets: names, tuple/list destructuring (nested), subscripts
AssignTargets ==
    {Name(n) : n \in Names}
      \cup {TupleN(<<Name("x"), Name("y")>>),
            ListN(<<Name("x"), Name("y")>>),
            TupleN(<<Name("y"), ListN(<<Name("x")>>)>>),
            Subscript("x")}

\* deletion targets: names, tuple/list of targets (nested), subscripts,
\* attributes
DeleteTargets ==
    {Name(n) : n \in Names}
      \cup {TupleN(<<Name("x"), Name("y")>>),
            ListN(<<Name("y"), TupleN(<<Name("x")>>)>>),
            TupleN(<<Name("x"), Subscript("y")>>),
            Subscript("x"),
            Attribute("x")}

\* tests of an if/while: an opaque test, isinstance(<name>, T),
\* isinstance(<name>.attr, T)
NoTest == [call |-> "", arg |-> NoNode, cls |-> ""]
IsInstance(arg, cls) == [call |-> "isinstance", arg |-> arg, cls |-> cls]
Tests ==
    {NoTest}
      \cup {IsInstance(Name(n), "A") : n \in Names}
      \cup {IsInstance(Name("x"), "B"), IsInstance(Attribute("x"), "A")}

(* ------------------------ ordered dictionaries ------------------------- *)
\* A dict is the sequence of its <<key, value>> items in insertion order.
Keys(m) == {m[i][1] : i \in DOMAIN m}
Has(m, key) == \E i \in DOMAIN m : m[i][1] = key
Lookup(m, key) == m[CHOOSE i \in DOMAIN m : m[i][1] = key][2]
Put(m, key, val) ==
    IF Has(m, key)
    THEN [i \in DOMAIN m |-> IF m[i][1] = key THEN <<key, val>> ELSE m[i]]
    ELSE Append(m, <<key, val>>)
Del(m, key) == SelectSeq(m, LAMBDA item : item[1] # key)

(* ----------------------------- state ----------------------------------- *)
VARIABLES
    ctxs,      \* every Context created so far; ctxs[1] is the module's root
    nsym,      \* number of symbols minted by solver.new_z3_const
    hard,      \* constraints given to solver.add, in order
    soft,      \* constraints given to solver.optimize.add_soft, in order
    err,       \* the exception that ended the run, or "none"
    frames,    \* the _infer_control_flow calls in progress, innermost last
    steps,     \* statements inferred so far
    last,      \* the statement (or block end) the last step inferred
    enforce_same_type_in_branches   \* inference_config flag

stmtVars == <<ctxs, nsym, hard, soft, err, frames, steps, last,
              enforce_same_type_in_branches>>

\* pre-analysis (pre_analysis.py)
VARIABLES
    class_defs,       \* names of the ClassDef nodes, in listing order
    ast_bases,        \* class -> class_def.bases, the base expressions
    class_to_bases,   \* class -> declared bases, the linearization's input
    prog,             \* class -> the statements of its body as parsed
    body,             \* class -> class_def.body, a list of nodes
    node_super,       \* the .super attribute set on nodes: <<node, class>>
    class_to_inherited_funcs,
    class_to_inherited_attrs,
    class_inherited_funcs_to_super,
    ppc,              \* position in propagate_attributes_to_subclasses
    pidx,             \* index in class_defs of its second loop
    lists,            \* merge: the lists still to merge
    res,              \* merge: the output list
    lin_cls,          \* the class get_linearization was called for
    lin,              \* the linearization it returned
    lpc,              \* position in get_linearization / merge
    lstack            \* the get_linearization calls in progress, innermost
                      \* last, each with its own bases_linearizations and
                      \* the lists of its merge

linVars == <<class_to_bases, lists, res, lin_cls, lin, lpc, lstack>>
propVars == <<class_defs, ast_bases, prog, body, node_super,
              class_to_inherited_funcs, class_to_inherited_attrs,
              class_inherited_funcs_to_super, ppc, pidx>>
preVars == <<linVars, propVars>>

\* analyze_classes (pre_analysis.py)
VARIABLES
    class_to_base,      \* key -> the base-class names recorded for the class
    class_to_funcs,     \* class -> its method table
    class_type_params,  \* conf.class_type_params: class -> parameter names
    class_to_class_attributes,     \* class -> names reachable on the class
    class_to_instance_attributes,  \* class -> names reachable on instances
    remove_later,       \* the synthesized __init__ nodes (.remove_later)
    apc,                \* position in analyze_classes
    aidx                \* index in class_defs of its loop

clsVars == <<class_to_base, class_to_funcs, class_type_params,
             class_to_class_attributes, class_to_instance_attributes,
             remove_later, apc, aidx>>

\* analyze_functions (pre_analysis.py)
VARIABLES
    tv_nodes,     \* the TypeVar declarations found, in node order
    functions,    \* the FunctionDef nodes found, in node order
    type_params,  \* conf.type_params: function -> type-parameter list
    type_vars,    \* conf.type_vars: <<module, name>> -> identifier
    tidx,         \* index in tv_nodes of the first loop
    fidx          \* index in functions of the second loop

fnVars == <<tv_nodes, functions, type_params, type_vars, tidx, fidx>>

\* get_all_configurations / Configuration.complete_class_to_base
VARIABLES
    user_func_defs,     \* len(node.args.args) of the program's functions
    stub_func_defs,     \* the same for the functions of the stubs
    user_tuples,        \* len(node.elts) of the program's tuples
    stub_tuples,        \* the same for the tuples of the stubs
    max_tuple_length,   \* config.max_tuple_length
    max_function_args,  \* config.max_function_args
    all_classes,        \* config.all_classes
    cpc                 \* position in get_all_configurations

confVars == <<user_func_defs, stub_func_defs, user_tuples, stub_tuples,
              max_tuple_length, max_function_args, all_classes, cpc>>

\* the session state _infer_func_def and infer leave behind
VARIABLES
    current_method,  \* solver.z3_types.current_method; 0 stands for None
    fstack,          \* the class body and the _infer_func_def calls in
                     \* progress, innermost last
    ret              \* the value the last call of infer returned

runVars == <<current_method, fstack, ret>>

\* run_inference (inference_runner.py)
VARIABLES
    rpc,        \* position in run_inference
    check,      \* the result of the satisfiability check
    log,        \* the constraint log file
    core,       \* the unsat core file
    model,      \* the model the run goes on with
    printed,    \* the "Unsat:" reports printed, in order
    written,    \* the typed program has been written
    print_unsat_core,        \* config.config flag
    enable_soft_constraints  \* config.config flag

\* configure_inference (inference_runner.py)
VARIABLES
    cfg_args,            \* vars(args) still to visit: <<flag name, value>>
    func_type_params,    \* the local func_type_params
    cfg_class_type_params  \* the local class_type_params

cfgVars == <<cfg_args, func_type_params, cfg_class_type_params>>

\* PreAnalyzer.walk (pre_analysis.py)
VARIABLES
    imports,     \* module -> its import statements: <<kind, module>>
    ast_cached,  \* ImportHandler hands out one AST object per module
    analyzed,    \* self.analyzed: the alias nodes seen
    walked,      \* the modules walk was called for, in call order
    wstack       \* the calls of walk in progress, innermost last

walkVars == <<imports, ast_cached, analyzed, walked, wstack>>

sessVars == <<rpc, check, log, core, model, printed, written,
              print_unsat_core, enable_soft_constraints, cfgVars, walkVars>>

extVars == <<clsVars, fnVars, confVars, runVars, sessVars>>
\* what the steps of one part of the pre-analysis leave alone
exceptCls == <<fnVars, confVars, runVars, sessVars>>
exceptFn == <<clsVars, confVars, runVars, sessVars>>
exceptConf == <<fnVars, runVars, sessVars>>

vars == <<stmtVars, preVars, extVars>>

\* the part of the state the handlers thread through their calls
Solver == [ctxs |-> ctxs, nsym |-> nsym, hard |-> hard, soft |-> soft,
           err |-> err]

(* --------------------------- solver ------------------------------------ *)
\* solver.new_z3_const: a fresh symbol
NewZ3Const(st) == [st |-> [st EXCEPT !.nsym = @ + 1], t |-> Sym(st.nsym + 1)]
SolverAdd(st, c) == [st EXCEPT !.hard = Append(@, c)]
AddSoft(st, c) == [st EXCEPT !.soft = Append(@, c)]
Raise(st, e) == [st EXCEPT !.err = e]

(* --------------------------- Context ----------------------------------- *)
\* Context(node, body, solver, parent_context=p): empty, linked to its parent
NewContext(st, p) ==
    [st EXCEPT !.ctxs = Append(@, [types_map |-> <<>>,
                                   parent_context |-> p,
                                   isinstance_nodes |-> <<>>])]

RECURSIVE has_variable(_, _, _)
has_variable(cs, c, v) ==
    IF Has(cs[c].types_map, v) THEN TRUE
    ELSE IF cs[c].parent_context = 0 THEN FALSE
    ELSE has_variable(cs, cs[c].parent_context, v)

\* get_type of a name has_variable finds
RECURSIVE get_type(_, _, _)
get_type(cs, c, v) ==
    IF Has(cs[c].types_map, v) THEN Lookup(cs[c].types_map, v)
    ELSE get_type(cs, cs[c].parent_context, v)

set_type(st, c, v, t) ==
    [st EXCEPT !.ctxs[c].types_map = Put(@, v, t)]

delete_type(st, c, v) ==
    [st EXCEPT !.ctxs[c].types_map = Del(@, v)]

\* expr.infer of a name: its type in the chain, NameError when undefined
ExprInferName(st, c, v) ==
    IF has_variable(st.ctxs, c, v)
    THEN [st |-> st, t |-> get_type(st.ctxs, c, v)]
    ELSE [st |-> Raise(st, "NameError"), t |-> NoneT]

(* ---------------------- assignment targets ----------------------------- *)
\* mutant: the target is looked up through the whole chain of contexts
InferNameTargetChain(id, c, st) ==
    IF has_variable(st.ctxs, c, id)
    THEN [st |-> st, t |-> get_type(st.ctxs, c, id)]
    ELSE LET m == NewZ3Const(st)
         IN  [st |-> set_type(m.st, c, id, m.t), t |-> m.t]

\* the branch of _infer_one_target for a simple name
InferNameTarget(id, c, st) ==
    IF Has(st.ctxs[c].types_map, id)
    THEN [st |-> st, t |-> get_type(st.ctxs, c, id)]
    ELSE LET m == NewZ3Const(st)
         IN  [st |-> set_type(m.st, c, id, m.t), t |-> m.t]

RECURSIVE _infer_one_target(_, _, _)
RECURSIVE InferTupleElts(_, _, _, _)
RECURSIVE InferListElts(_, _, _, _)

\* for elt in target.elts: args_types.append(_infer_one_target(elt, ...))
InferTupleElts(elts, c, st, acc) ==
    IF elts = <<>> \/ st.err # "none" THEN [st |-> st, ts |-> acc]
    ELSE LET r == _infer_one_target(Head(elts), c, st)
         IN  InferTupleElts(Tail(elts), c, r.st, Append(acc, r.t))

\* for elt in target.elts: solver.add(list_type == _infer_one_target(elt))
InferListElts(elts, c, st, list_type) ==
    IF elts = <<>> \/ st.err # "none" THEN st
    ELSE LET r == _infer_one_target(Head(elts), c, st)
             s == IF r.st.err # "none" THEN r.st
                  ELSE SolverAdd(r.st, Axiom("eq", <<list_type, r.t>>))
         IN  InferListElts(Tail(elts), c, s, list_type)

_infer_one_target(target, c, st) ==
    CASE target.k = "Name" -> InferNameTarget(target.id, c, st)
      [] target.k = "Tuple" ->
            LET r == InferTupleElts(target.elts, c, st, <<>>)
            IN  [st |-> r.st, t |-> TupleT(r.ts)]
      [] target.k = "List" ->
            LET m == NewZ3Const(st)
            IN  [st |-> InferListElts(target.elts, c, m.st, m.t),
                 t |-> ListT(m.t)]
      [] OTHER ->
            \* a subscript: expr.infer(target), then the subscript axiom
            LET r == ExprInferName(st, c, target.id)
            IN  IF r.st.err # "none" THEN [st |-> r.st, t |-> NoneT]
                ELSE [st |-> SolverAdd(r.st,
                                Axiom("subscript_assignment", <<r.t>>)),
                      t |-> ElemT(r.t)]

_infer_assignment_target(target, c, value_type, st) ==
    LET r == _infer_one_target(target, c, st)
    IN  IF r.st.err # "none" THEN r.st
        ELSE AddSoft(SolverAdd(r.st, Axiom("assignment", <<r.t, value_type>>)),
                     Soft("eq", <<r.t, value_type>>, 2))

\* expr.infer of a literal: a constant has its own type, a tuple display the
\* tuple type of its elements' types
ExprInferLiteral(value) ==
    IF value.k = "Tuple"
    THEN TupleT([i \in DOMAIN value.elts |-> ConstT(value.elts[i].id)])
    ELSE ConstT(value.id)

\* _infer_assign with one target and a literal value
_infer_assign(target, value, c, st) ==
    _infer_assignment_target(target, c, ExprInferLiteral(value), st)

(* --------------------------- deletion ---------------------------------- *)
RECURSIVE _delete_element(_, _, _)
RECURSIVE DeleteElts(_, _, _)

DeleteElts(elts, c, st) ==
    IF elts = <<>> \/ st.err # "none" THEN st
    ELSE DeleteElts(Tail(elts), c, _delete_element(Head(elts), c, st))

\* mutant: a deleted name is removed from every context
_delete_element_everywhere(target, c, st) ==
    CASE target.k \in {"Tuple", "List"} -> DeleteElts(target.elts, c, st)
      [] target.k = "Name" ->
            [st EXCEPT !.ctxs = [d \in DOMAIN @ |->
                [@[d] EXCEPT !.types_map = Del(@, target.id)]]]
      [] target.k = "Subscript" ->
            LET r == ExprInferName(st, c, target.id)
            IN  IF r.st.err # "none" THEN r.st
                ELSE SolverAdd(r.st, Axiom("delete_subscript", <<r.t>>))
      [] OTHER -> Raise(st, "NotImplementedError")

_delete_element(target, c, st) ==
    CASE target.k \in {"Tuple", "List"} -> DeleteElts(target.elts, c, st)
      [] target.k = "Name" -> delete_type(st, c, target.id)
      [] target.k = "Subscript" ->
            LET r == ExprInferName(st, c, target.id)
            IN  IF r.st.err # "none" THEN r.st
                ELSE SolverAdd(r.st, Axiom("delete_subscript", <<r.t>>))
      [] OTHER -> Raise(st, "NotImplementedError")

_infer_delete(target, c, st) == _delete_element(target, c, st)

(* --------------------------- blocks ------------------------------------ *)
\* the context the traversal is inferring statements in
CurrentContext(fs) ==
    IF fs = <<>> THEN 1
    ELSE CASE fs[Len(fs)].phase = "body" -> fs[Len(fs)].body_context
           [] fs[Len(fs)].phase = "else" -> fs[Len(fs)].else_context
           [] fs[Len(fs)].phase = "final" -> fs[Len(fs)].context
           [] OTHER -> fs[Len(fs)].handler_context

\* the symbol of the block being inferred by the innermost construct
BlockType(f) ==
    CASE f.phase = "body" -> f.body_type
      [] f.phase = "else" -> f.else_type
      [] f.phase = "final" -> f.final_type
      [] OTHER -> f.handler_type

\* _infer_body, after infer(stmt) returned stmt_type: the body axiom
BodyStmtAxiom(body_type, stmt_type) == Axiom("body", <<body_type, stmt_type>>)

\* a statement of the innermost block has been inferred with type stmt_type
StmtDone(st, fs, stmt_type) ==
    IF fs = <<>> \/ st.err # "none" THEN st
    ELSE SolverAdd(st, BodyStmtAxiom(BlockType(fs[Len(fs)]), stmt_type))

RecordStmt(st, fs, stmt_type) ==
    IF fs = <<>> \/ st.err # "none" THEN fs
    ELSE [fs EXCEPT ![Len(fs)].stmts_types = Append(@, stmt_type)]

\* mutant: the empty block is not constrained to the no-value type
EndOfBodyNoEmptyCase(st, body_type, stmts_types) ==
    IF stmts_types = <<>>
    THEN st
    ELSE SolverAdd(st, Axiom("all_none_implies_none",
                             <<body_type>> \o stmts_types))

\* _infer_body once the statements of the block are done
EndOfBody(st, body_type, stmts_types) ==
    IF stmts_types = <<>>
    THEN SolverAdd(st, Axiom("eq", <<body_type, NoneT>>))
    ELSE SolverAdd(st, Axiom("all_none_implies_none",
                             <<body_type>> \o stmts_types))

(* ------------------------ control flow --------------------------------- *)
\* mutant: the narrowing fact is recorded in both branch contexts
RecordNarrowingBoth(st, b, e, test) ==
    [st EXCEPT !.ctxs[b].isinstance_nodes = Put(@, test.arg, ConstT(test.cls)),
               !.ctxs[e].isinstance_nodes = Put(@, test.arg, ConstT(test.cls))]

\* body_context.isinstance_nodes[ast.dump(node.test.args[0])] = t, with
\* b and e the body and else contexts
RecordNarrowing(st, b, e, test) ==
    [st EXCEPT !.ctxs[b].isinstance_nodes = Put(@, test.arg, ConstT(test.cls))]

\* the part of _infer_control_flow before the body: the two branch contexts,
\* the test, the isinstance narrowing fact, the body's symbol
EnterControlFlow(test, c, st) ==
    LET b == Len(st.ctxs) + 1
        e == Len(st.ctxs) + 2
        st1 == NewContext(NewContext(st, c), c)
        r == IF test.call = "isinstance"
             THEN ExprInferName(st1, c, test.arg.id)
             ELSE [st |-> st1, t |-> NoneT]
        st2 == IF test.call = "isinstance"
               THEN RecordNarrowing(r.st, b, e, test)
               ELSE r.st
        m == NewZ3Const(st2)
    IN  IF r.st.err # "none" THEN [st |-> r.st, frame |-> <<>>]
        ELSE [st |-> m.st,
              frame |-> <<[kind |-> "If",
                           result_type |-> NoneT,
                           final_type |-> NoneT,
                           handlers |-> <<>>,
                           handler_type |-> NoneT,
                           handler_context |-> c,
                           context |-> c,
                           body_context |-> b,
                           else_context |-> e,
                           var_is_instance |->
                               IF test.call = "isinstance"
                                  /\ test.arg.k = "Name"
                               THEN test.arg.id ELSE "",
                           phase |-> "body",
                           body_type |-> m.t,
                           else_type |-> NoneT,
                           stmts_types |-> <<>>,
                           test |-> test,
                           entry |-> st.ctxs[c]]>>]

\* "Re-assigning variables in the body branch" / "... in the else branch":
\* skip is the isinstance variable for the body, "" for the else branch
RECURSIVE ReassignBranch(_, _, _, _)
ReassignBranch(m, c, skip, st) ==
    IF m = <<>> THEN st
    ELSE LET v == Head(m)[1]
             s == IF has_variable(st.ctxs, c, v) /\ v # skip
                  THEN SolverAdd(st, Axiom("eq", <<Head(m)[2],
                                                   get_type(st.ctxs, c, v)>>))
                  ELSE st
         IN  ReassignBranch(Tail(m), c, skip, s)

\* mutant: the subtype relation is asserted the wrong way round
BranchAxiomsReversed(t1, t2, var_type, same) ==
    IF same
    THEN <<Axiom("eq", <<t1, var_type>>), Axiom("eq", <<t2, var_type>>)>>
    ELSE <<Axiom("subtype", <<var_type, t1>>),
           Axiom("subtype", <<var_type, t2>>)>>

BranchAxioms(t1, t2, var_type, same) ==
    IF same
    THEN <<Axiom("eq", <<t1, var_type>>), Axiom("eq", <<t2, var_type>>)>>
    ELSE <<Axiom("subtype", <<t1, var_type>>),
           Axiom("subtype", <<t2, var_type>>)>>

\* the body of the intersection loop for one variable of both branches
JoinVariable(v, t1, t2, c, same, st) ==
    LET m == NewZ3Const(st)
        ax == BranchAxioms(t1, t2, m.t, same)
        s1 == SolverAdd(SolverAdd(m.st, ax[1]), ax[2])
        s2 == AddSoft(AddSoft(s1, Soft("eq", <<t1, m.t>>, 1)),
                      Soft("eq", <<t2, m.t>>, 1))
    IN  set_type(s2, c, v, m.t)

\* mutant: every new variable of the body branch is promoted
RECURSIVE JoinBranchesUnion(_, _, _, _, _)
JoinBranchesUnion(bm, em, c, same, st) ==
    IF bm = <<>> THEN st
    ELSE LET v == Head(bm)[1]
             t2 == IF Has(em, v) THEN Lookup(em, v) ELSE Head(bm)[2]
             s == IF ~has_variable(st.ctxs, c, v)
                  THEN JoinVariable(v, Head(bm)[2], t2, c, same, st)
                  ELSE st
         IN  JoinBranchesUnion(Tail(bm), em, c, same, s)

\* "Take intersection of variables in both contexts"
RECURSIVE JoinBranches(_, _, _, _, _)
JoinBranches(bm, em, c, same, st) ==
    IF bm = <<>> THEN st
    ELSE LET v == Head(bm)[1]
             s == IF Has(em, v) /\ ~has_variable(st.ctxs, c, v)
                  THEN JoinVariable(v, Head(bm)[2], Lookup(em, v), c, same, st)
                  ELSE st
         IN  JoinBranches(Tail(bm), em, c, same, s)

\* mutant: the else branch skips the isinstance variable as the body does
MergeControlFlowSkipBoth(f, same, st) ==
    LET bm == st.ctxs[f.body_context].types_map
        em == st.ctxs[f.else_context].types_map
        s1 == ReassignBranch(bm, f.context, f.var_is_instance, st)
        s2 == ReassignBranch(em, f.context, f.var_is_instance, s1)
        s3 == JoinBranches(bm, em, f.context, same, s2)
        m == NewZ3Const(s3)
        s4 == SolverAdd(m.st, Axiom("control_flow",
                                    <<f.body_type, f.else_type, m.t>>))
        s5 == AddSoft(AddSoft(s4, Soft("eq", <<m.t, f.body_type>>, 1)),
                      Soft("eq", <<m.t, f.else_type>>, 1))
    IN  [st |-> s5, t |-> m.t]

\* the part of _infer_control_flow after both branches are inferred
MergeControlFlow(f, same, st) ==
    LET bm == st.ctxs[f.body_context].types_map
        em == st.ctxs[f.else_context].types_map
        s1 == ReassignBranch(bm, f.context, f.var_is_instance, st)
        s2 == ReassignBranch(em, f.context, "", s1)
        s3 == JoinBranches(bm, em, f.context, same, s2)
        m == NewZ3Const(s3)
        s4 == SolverAdd(m.st, Axiom("control_flow",
                                    <<f.body_type, f.else_type, m.t>>))
        s5 == AddSoft(AddSoft(s4, Soft("eq", <<m.t, f.body_type>>, 1)),
                      Soft("eq", <<m.t, f.else_type>>, 1))
    IN  [st |-> s5, t |-> m.t]

(* ------------------------------ try ------------------------------------ *)
\* the lists of at most n elements of S
SeqsUpTo(S, n) == UNION {[1..k -> S] : k \in 0..n}

\* most exception handlers of a try statement
MaxHandlers == 2

\* an exception handler: "except <type>:" or "except <type> as <name>:"
ExceptHandler(type, name) == [type |-> type, name |-> name]
HandlerLists ==
    SeqsUpTo({ExceptHandler("Exception", ""), ExceptHandler("Exception", "x")},
             MaxHandlers)

\* solver.annotation_resolver.resolve of a handler's exception class
ResolveAnnotation(type) == ConstT(type)

\* _infer_try up to the start of the try body: the result symbol, then the
\* body's symbol; the three blocks are inferred in the try's own context
EnterTry(handlers, c, st) ==
    LET r == NewZ3Const(st)
        m == NewZ3Const(r.st)
    IN  [st |-> m.st,
         frame |-> <<[kind |-> "Try",
                      result_type |-> r.t,
                      final_type |-> NoneT,
                      handlers |-> handlers,
                      handler_type |-> NoneT,
                      handler_context |-> c,
                      context |-> c,
                      body_context |-> c,
                      else_context |-> c,
                      var_is_instance |-> "",
                      phase |-> "body",
                      body_type |-> m.t,
                      else_type |-> NoneT,
                      stmts_types |-> <<>>,
                      test |-> NoTest,
                      entry |-> st.ctxs[c]]>>]

\* the try/except axiom and the soft preferences that follow it
TryExcept(f, st) ==
    LET s1 == SolverAdd(st, Axiom("try_except",
                  <<f.body_type, f.else_type, f.final_type, f.result_type>>))
    IN  AddSoft(AddSoft(AddSoft(s1,
            Soft("eq", <<f.result_type, f.body_type>>, 1)),
            Soft("eq", <<f.result_type, f.else_type>>, 1)),
            Soft("eq", <<f.result_type, f.final_type>>, 1))

\* mutant: the exception's name is bound in the try's own context, which
\* the handler's body is then inferred in
BeginHandlerShared(f, st) ==
    LET h == Head(f.handlers)
        s1 == IF h.name # ""
              THEN set_type(st, f.context, h.name, ResolveAnnotation(h.type))
              ELSE st
        m == NewZ3Const(s1)
    IN  [st |-> m.st,
         frame |-> [f EXCEPT !.phase = "handler", !.handlers = Tail(@),
                             !.handler_type = m.t, !.handler_context = f.context,
                             !.stmts_types = <<>>]]

\* for handler in node.handlers, up to the start of the handler's body: a
\* named handler gets a context of its own holding the exception's type
BeginHandler(f, st) ==
    LET h == Head(f.handlers)
        hc == IF h.name # "" THEN Len(st.ctxs) + 1 ELSE f.context
        s1 == IF h.name # ""
              THEN set_type(NewContext(st, f.context), hc, h.name,
                            ResolveAnnotation(h.type))
              ELSE st
        m == NewZ3Const(s1)
    IN  [st |-> m.st,
         frame |-> [f EXCEPT !.phase = "handler", !.handlers = Tail(@),
                             !.handler_type = m.t, !.handler_context = hc,
                             !.stmts_types = <<>>]]

\* mutant: the handler body's type is forced equal to the result type
HandlerDoneEqual(f, st) ==
    SolverAdd(st, Axiom("eq", <<f.handler_type, f.result_type>>))

\* the constraint added once a handler's body is inferred
HandlerDone(f, st) ==
    SolverAdd(st, Axiom("subtype", <<f.handler_type, f.result_type>>))

(* ----------------------------- steps ----------------------------------- *)
Stmt(op, target, value, test) ==
    [op |-> op, target |-> target, value |-> value, test |-> test]

Commit(st) ==
    /\ ctxs' = st.ctxs
    /\ nsym' = st.nsym
    /\ hard' = st.hard
    /\ soft' = st.soft
    /\ err' = st.err

\* no pre-analysis in progress
LinIdle ==
    /\ lists = <<>> /\ res = <<>> /\ lin_cls = "" /\ lin = <<>>
    /\ lpc = "idle" /\ lstack = <<>>
PropIdle ==
    /\ class_defs = <<>> /\ ast_bases = <<>> /\ prog = <<>> /\ body = <<>>
    /\ node_super = {}
    /\ class_to_inherited_funcs = <<>> /\ class_to_inherited_attrs = <<>>
    /\ class_inherited_funcs_to_super = <<>>
    /\ ppc = "idle" /\ pidx = 0
ClsIdle ==
    /\ class_to_base = <<>> /\ class_to_funcs = <<>>
    /\ class_type_params = <<>> /\ remove_later = {}
    /\ class_to_class_attributes = <<>>
    /\ class_to_instance_attributes = <<>>
    /\ apc = "idle" /\ aidx = 0
FnIdle ==
    /\ tv_nodes = <<>> /\ functions = <<>> /\ type_params = <<>>
    /\ type_vars = <<>> /\ tidx = 0 /\ fidx = 0
ConfIdle ==
    /\ user_func_defs = <<>> /\ stub_func_defs = <<>>
    /\ user_tuples = <<>> /\ stub_tuples = <<>>
    /\ max_tuple_length = 0 /\ max_function_args = 0
    /\ all_classes = <<>> /\ cpc = "idle"
\* what infer returns is a type; NoRet: no call has returned yet
NoRet == ConstT("")
NoFile == [written |-> FALSE, hard |-> <<>>, soft |-> <<>>]
NoCore == [written |-> FALSE, msgs |-> {}]
NoModel == [some |-> FALSE, soft_vars |-> {}, sat |-> {}]
\* a local that holds None, or the mapping it holds
PyNoneMap == [none |-> TRUE, map |-> <<>>]
Mapping(m) == [none |-> FALSE, map |-> m]
CfgIdle ==
    /\ cfg_args = <<>> /\ func_type_params = PyNoneMap
    /\ cfg_class_type_params = PyNoneMap
WalkIdle ==
    /\ imports = <<>> /\ ast_cached = FALSE /\ analyzed = {}
    /\ walked = <<>> /\ wstack = <<>>
SessIdle ==
    /\ CfgIdle /\ WalkIdle
    /\ rpc = "idle" /\ check = "" /\ log = NoFile /\ core = NoCore
    /\ model = NoModel /\ printed = <<>> /\ written = FALSE
    /\ print_unsat_core = FALSE /\ enable_soft_constraints = FALSE
RunIdle ==
    /\ current_method = 0 /\ fstack = <<>> /\ ret = NoRet /\ SessIdle
ExtIdle == ClsIdle /\ FnIdle /\ ConfIdle /\ RunIdle
PreIdle == class_to_bases = <<>> /\ LinIdle /\ PropIdle /\ ExtIdle

Init ==
    /\ ctxs = <<[types_map |-> <<>>, parent_context |-> 0,
                 isinstance_nodes |-> <<>>]>>
    /\ nsym = 0
    /\ hard = <<>>
    /\ soft = <<>>
    /\ err = "none"
    /\ frames = <<>>
    /\ steps = 0
    /\ last = Stmt("", NoNode, NoNode, NoTest)
    /\ enforce_same_type_in_branches \in BOOLEAN
    /\ PreIdle

\* infer(stmt) for an ast.Assign
InferAssign ==
    \E target \in AssignTargets, value \in ValueTypes :
        /\ err = "none" /\ steps < MaxStmts
        /\ LET st1 == _infer_assign(target, Constant(value),
                                    CurrentContext(frames), Solver)
           IN  /\ Commit(StmtDone(st1, frames, NoneT))
               /\ frames' = RecordStmt(st1, frames, NoneT)
        /\ steps' = steps + 1
        /\ last' = Stmt("Assign", target, Constant(value), NoTest)
        /\ UNCHANGED <<enforce_same_type_in_branches, preVars, extVars>>

\* infer(stmt) for an ast.Delete
InferDelete ==
    \E target \in DeleteTargets :
        /\ err = "none" /\ steps < MaxStmts
        /\ LET st1 == _infer_delete(target, CurrentContext(frames), Solver)
           IN  /\ Commit(StmtDone(st1, frames, NoneT))
               /\ frames' = RecordStmt(st1, frames, NoneT)
        /\ steps' = steps + 1
        /\ last' = Stmt("Delete", target, NoNode, NoTest)
        /\ UNCHANGED <<enforce_same_type_in_branches, preVars, extVars>>

\* infer(stmt) for an ast.If / ast.While, up to the start of its body
InferIf ==
    \E test \in Tests :
        /\ err = "none" /\ steps < MaxStmts /\ Len(frames) < MaxDepth
        /\ LET r == EnterControlFlow(test, CurrentContext(frames), Solver)
           IN  /\ Commit(r.st)
               /\ frames' = frames \o r.frame
        /\ steps' = steps + 1
        /\ last' = Stmt("If", NoNode, NoNode, test)
        /\ UNCHANGED <<enforce_same_type_in_branches, preVars, extVars>>

\* the body of the innermost construct ends; its else branch begins
EndBody ==
    /\ err = "none" /\ frames # <<>>
    /\ frames[Len(frames)].phase = "body"
    /\ LET f == frames[Len(frames)]
           m == NewZ3Const(EndOfBody(Solver, f.body_type, f.stmts_types))
       IN  /\ Commit(m.st)
           /\ frames' = [frames EXCEPT ![Len(frames)] =
                            [f EXCEPT !.phase = "else", !.else_type = m.t,
                                      !.stmts_types = <<>>]]
    /\ last' = Stmt("EndBody", NoNode, NoNode, NoTest)
    /\ UNCHANGED <<steps, enforce_same_type_in_branches, preVars, extVars>>

\* the else branch of the innermost construct ends: the branches are merged
\* and the construct's type goes to the enclosing block
EndIf ==
    /\ err = "none" /\ frames # <<>>
    /\ frames[Len(frames)].kind = "If"
    /\ frames[Len(frames)].phase = "else"
    /\ LET f == frames[Len(frames)]
           outer == SubSeq(frames, 1, Len(frames) - 1)
           r == MergeControlFlow(f, enforce_same_type_in_branches,
                                 EndOfBody(Solver, f.else_type, f.stmts_types))
       IN  /\ Commit(StmtDone(r.st, outer, r.t))
           /\ frames' = RecordStmt(r.st, outer, r.t)
    /\ last' = Stmt("EndIf", NoNode, NoNode, NoTest)
    /\ UNCHANGED <<steps, enforce_same_type_in_branches, preVars, extVars>>

Next == InferAssign \/ InferDelete \/ InferIf \/ EndBody \/ EndIf

\* infer(stmt) for an ast.Try, up to the start of its body; the handlers
\* count against the bound on the statements of the module, and a try nests
\* one level less deep than the bound on nesting
InferTry ==
    \E handlers \in HandlerLists :
        /\ err = "none" /\ steps + Len(handlers) < MaxStmts
        /\ Len(frames) + 1 < MaxDepth
        /\ LET r == EnterTry(handlers, CurrentContext(frames), Solver)
           IN  /\ Commit(r.st)
               /\ frames' = frames \o r.frame
        /\ steps' = steps + 1
        /\ last' = Stmt("Try", NoNode, NoNode, NoTest)
        /\ UNCHANGED <<enforce_same_type_in_branches, preVars, extVars>>

\* the else block of the innermost try ends; its finally block begins
EndOrElse ==
    /\ err = "none" /\ frames # <<>>
    /\ frames[Len(frames)].kind = "Try"
    /\ frames[Len(frames)].phase = "else"
    /\ LET f == frames[Len(frames)]
           m == NewZ3Const(EndOfBody(Solver, f.else_type, f.stmts_types))
       IN  /\ Commit(m.st)
           /\ frames' = [frames EXCEPT ![Len(frames)] =
                            [f EXCEPT !.phase = "final", !.final_type = m.t,
                                      !.stmts_types = <<>>]]
    /\ last' = Stmt("EndOrElse", NoNode, NoNode, NoTest)
    /\ UNCHANGED <<steps, enforce_same_type_in_branches, preVars, extVars>>

\* the handlers left are inferred next; after the last one the try's result
\* type goes to the enclosing block
ContinueTry(f, st) ==
    LET outer == SubSeq(frames, 1, Len(frames) - 1)
    IN  IF f.handlers = <<>>
        THEN /\ Commit(StmtDone(st, outer, f.result_type))
             /\ frames' = RecordStmt(st, outer, f.result_type)
        ELSE LET r == BeginHandler(f, st)
             IN  /\ Commit(r.st)
                 /\ frames' = Append(outer, r.frame)

\* the finally block of the innermost try ends: the try/except axiom
EndFinalBody ==
    /\ err = "none" /\ frames # <<>>
    /\ frames[Len(frames)].kind = "Try"
    /\ frames[Len(frames)].phase = "final"
    /\ LET f == frames[Len(frames)]
       IN  ContinueTry(f, TryExcept(f, EndOfBody(Solver, f.final_type,
                                                 f.stmts_types)))
    /\ last' = Stmt("EndFinalBody", NoNode, NoNode, NoTest)
    /\ UNCHANGED <<steps, enforce_same_type_in_branches, preVars, extVars>>

\* the body of an exception handler of the innermost try ends
EndHandler ==
    /\ err = "none" /\ frames # <<>>
    /\ frames[Len(frames)].kind = "Try"
    /\ frames[Len(frames)].phase = "handler"
    /\ LET f == frames[Len(frames)]
       IN  ContinueTry(f, HandlerDone(f, EndOfBody(Solver, f.handler_type,
                                                   f.stmts_types)))
    /\ last' = Stmt("EndHandler", NoNode, NoNode, NoTest)
    /\ UNCHANGED <<steps, enforce_same_type_in_branches, preVars, extVars>>

\* a module made of try statements, nested or in sequence, whose blocks hold
\* assignments of an integer to x; the branch flag plays no part in a
\* try
InitTry == Init /\ ~enforce_same_type_in_branches

AssignInTry ==
    /\ frames # <<>>
    /\ InferAssign
    /\ last'.target = Name("x") /\ last'.value.id = "int"

NextTry ==
    \/ AssignInTry \/ InferTry
    \/ EndBody \/ EndOrElse \/ EndFinalBody \/ EndHandler

SpecTry == InitTry /\ [][NextTry]_vars

Spec == Init /\ [][Next]_vars

(* ------------------- unpacking literal sequences ----------------------- *)
\* tuple and list targets of two and three names
SequenceTargets ==
    {TupleN(<<Name("x"), Name("y")>>),
     ListN(<<Name("x"), Name("y")>>),
     TupleN(<<Name("x"), Name("y"), Name("x")>>),
     ListN(<<Name("y"), Name("x"), Name("y")>>)}

\* tuple displays of two and three literal constants
SequenceValues ==
    {TupleN(<<Constant(a), Constant(b)>>) : a, b \in ValueTypes}
      \cup {TupleN(<<Constant(a), Constant(b), Constant("int")>>) :
              a, b \in ValueTypes}

\* infer(stmt) for an ast.Assign of a tuple display to a tuple or list target
InferUnpack ==
    \E target \in SequenceTargets, value \in SequenceValues :
        /\ err = "none" /\ steps < MaxStmts
        /\ LET st1 == _infer_assign(target, value, CurrentContext(frames),
                                    Solver)
           IN  /\ Commit(StmtDone(st1, frames, NoneT))
               /\ frames' = RecordStmt(st1, frames, NoneT)
        /\ steps' = steps + 1
        /\ last' = Stmt("Assign", target, value, NoTest)
        /\ UNCHANGED <<enforce_same_type_in_branches, preVars, extVars>>

NextUnpack == InferAssign \/ InferUnpack \/ InferDelete

SpecUnpack == Init /\ [][NextUnpack]_vars

(* ===================== statement inferrer: claims ====================== *)
\* the step just taken ended an if/while construct, merging its branches
IsMerge == Len(frames') < Len(frames)
\* the construct being merged, its parent context and its branches' bindings
TopFrame == frames[Len(frames)]
BodyMap == ctxs[TopFrame.body_context].types_map
ElseMap == ctxs[TopFrame.else_context].types_map
\* the constraints the step emitted
NewHard == {hard'[i] : i \in (Len(hard) + 1)..Len(hard')}
NewSoft == {soft'[i] : i \in (Len(soft) + 1)..Len(soft')}
\* the step just taken inferred a statement of the given kind
IsStmt(op) == steps' = steps + 1 /\ last'.op = op

\* C1: after an if/while, every name bound in both branch contexts and not
\* resolvable from the parent is bound in the parent to a fresh join symbol;
\* both branch symbols are hard-constrained to be subtypes of it (equal to it
\* under enforce_same_type_in_branches) and softly preferred equal to it.
C1_JoinPromoted ==
    [][IsMerge =>
        LET c == TopFrame.context
        IN  \A v \in Keys(BodyMap) \cap Keys(ElseMap) :
              ~has_variable(ctxs, c, v) =>
                /\ Has(ctxs'[c].types_map, v)
                /\ LET j == Lookup(ctxs'[c].types_map, v)
                       t1 == Lookup(BodyMap, v)
                       t2 == Lookup(ElseMap, v)
                       rel == IF enforce_same_type_in_branches
                              THEN "eq" ELSE "subtype"
                   IN  /\ j.k = "sym" /\ j.n > nsym /\ j.n <= nsym'
                       /\ \A w \in Keys(ctxs'[c].types_map) \ {v} :
                             Lookup(ctxs'[c].types_map, w) # j
                       /\ [ax |-> rel, args |-> <<t1, j>>, weight |-> 0]
                             \in NewHard
                       /\ [ax |-> rel, args |-> <<t2, j>>, weight |-> 0]
                             \in NewHard
                       /\ \E w1 \in 1..2 :
                             [ax |-> "eq", args |-> <<t1, j>>, weight |-> w1]
                                \in NewSoft
                       /\ \E w2 \in 1..2 :
                             [ax |-> "eq", args |-> <<t2, j>>, weight |-> w2]
                                \in NewSoft]_vars

\* an if/else that bound x in both branches and not before has been merged
C1_Witness ==
    /\ last.op = "EndIf" /\ frames = <<>> /\ err = "none"
    /\ Len(ctxs) = 3
    /\ Has(ctxs[2].types_map, "x") /\ Has(ctxs[3].types_map, "x")
    /\ Has(ctxs[1].types_map, "x")
    /\ Lookup(ctxs[1].types_map, "x") \notin
          {Lookup(ctxs[2].types_map, "x"), Lookup(ctxs[3].types_map, "x")}

\* C2: after an if/while, every name bound in the body context that the
\* parent resolves (except the isinstance-narrowed variable) and every name
\* bound in the else context that the parent resolves has a hard equality
\* between the branch's symbol and the parent-level symbol.
C2_RebindEqualsParent ==
    [][IsMerge =>
        LET c == TopFrame.context
        IN  /\ \A v \in Keys(BodyMap) :
                 (has_variable(ctxs, c, v) /\ v # TopFrame.var_is_instance) =>
                   [ax |-> "eq",
                    args |-> <<Lookup(BodyMap, v), get_type(ctxs, c, v)>>,
                    weight |-> 0] \in NewHard
            /\ \A v \in Keys(ElseMap) :
                 has_variable(ctxs, c, v) =>
                   [ax |-> "eq",
                    args |-> <<Lookup(ElseMap, v), get_type(ctxs, c, v)>>,
                    weight |-> 0] \in NewHard]_vars

\* an if isinstance(x, T) whose else branch rebinds the parent's x was merged
C2_Witness ==
    /\ last.op = "EndIf" /\ frames = <<>> /\ err = "none"
    /\ Len(ctxs) = 3
    /\ Has(ctxs[2].isinstance_nodes, Name("x"))
    /\ Has(ctxs[1].types_map, "x") /\ Has(ctxs[3].types_map, "x")
    /\ ~Has(ctxs[2].types_map, "x")
    /\ [ax |-> "eq",
        args |-> <<Lookup(ctxs[3].types_map, "x"),
                   Lookup(ctxs[1].types_map, "x")>>,
        weight |-> 0] \in {hard[i] : i \in DOMAIN hard}

\* C3: a name bound in only one branch and not resolvable from the parent
\* stays branch-local: after the construct the parent's own bindings are
\* those it had when the construct began plus names bound in both branches.
C3_OneBranchStaysLocal ==
    [][IsMerge =>
        LET c == TopFrame.context
            before == TopFrame.entry.types_map
            after == ctxs'[c].types_map
            both == Keys(BodyMap) \cap Keys(ElseMap)
        IN  /\ \A v \in Keys(before) :
                 Has(after, v) /\ Lookup(after, v) = Lookup(before, v)
            /\ Keys(after) \ Keys(before) \subseteq both
            /\ \A v \in (Keys(BodyMap) \cup Keys(ElseMap)) \ both :
                 ~has_variable(ctxs, c, v) => ~Has(after, v)]_vars

\* an if that bound x in its body only, x unknown to the parent, was merged
C3_Witness ==
    /\ last.op = "EndIf" /\ frames = <<>> /\ err = "none"
    /\ Len(ctxs) = 3
    /\ Has(ctxs[2].types_map, "x") /\ ~Has(ctxs[3].types_map, "x")
    /\ ~Has(ctxs[1].types_map, "x")
    /\ Has(ctxs[3].types_map, "y") /\ ~Has(ctxs[1].types_map, "y")

\* the binding of name v is the same in the two dicts
SameBinding(m1, m2, v) ==
    /\ Has(m1, v) <=> Has(m2, v)
    /\ Has(m1, v) => Lookup(m1, v) = Lookup(m2, v)

\* C4 as stated: for a test isinstance(x, T) the narrowing fact for x is in
\* the body context only; the else context and the parent context hold no
\* narrowing fact for x, and the parent's binding of x is the same after the
\* construct as before it.
C4_AsStated ==
    [][(IsMerge /\ TopFrame.test.call = "isinstance") =>
        LET c == TopFrame.context
            key == TopFrame.test.arg
        IN  /\ Has(ctxs'[TopFrame.body_context].isinstance_nodes, key)
            /\ ~Has(ctxs'[TopFrame.else_context].isinstance_nodes, key)
            /\ ~Has(ctxs'[c].isinstance_nodes, key)
            /\ SameBinding(ctxs'[c].types_map, TopFrame.entry.types_map,
                           key.id)]_vars

\* C4 (amended): for a test isinstance(x, T) the construct records the
\* narrowing fact for x in the body context only: the else context holds no
\* narrowing fact, the parent context's narrowing facts are those it had
\* before the construct, and the parent's binding of x is the same after the
\* construct as before it.
C4_NarrowingBodyOnly ==
    [][(IsMerge /\ TopFrame.test.call = "isinstance") =>
        LET c == TopFrame.context
            key == TopFrame.test.arg
            facts == ctxs'[TopFrame.body_context].isinstance_nodes
        IN  /\ Has(facts, key)
            /\ Lookup(facts, key) = ConstT(TopFrame.test.cls)
            /\ ctxs'[TopFrame.else_context].isinstance_nodes = <<>>
            /\ ctxs'[c].isinstance_nodes = TopFrame.entry.isinstance_nodes
            /\ SameBinding(ctxs'[c].types_map, TopFrame.entry.types_map,
                           key.id)]_vars

\* an if isinstance(x, T) with x rebound in both branches has been merged
C4_Witness ==
    /\ last.op = "EndIf" /\ frames = <<>> /\ err = "none"
    /\ Len(ctxs) = 3
    /\ Has(ctxs[2].isinstance_nodes, Name("x"))
    /\ ctxs[3].isinstance_nodes = <<>> /\ ctxs[1].isinstance_nodes = <<>>
    /\ Has(ctxs[1].types_map, "x")
    /\ Has(ctxs[2].types_map, "x")

\* C5: assigning to a simple name bound in the current context reuses the
\* binding's symbol and mints none; assigning to a name not bound in the
\* current context mints a fresh symbol bound in the current context only,
\* and bindings of the name in enclosing contexts are unchanged.
C5_RebindOrFreshLocal ==
    [][(IsStmt("Assign") /\ last'.target.k = "Name") =>
        LET c == CurrentContext(frames)
            v == last'.target.id
            tgt == hard'[Len(hard) + 1].args[1]
        IN  /\ \A d \in DOMAIN ctxs : d # c => ctxs'[d] = ctxs[d]
            /\ \A w \in Names \ {v} :
                  SameBinding(ctxs'[c].types_map, ctxs[c].types_map, w)
            /\ IF Has(ctxs[c].types_map, v)
               THEN /\ nsym' = nsym
                    /\ ctxs'[c].types_map = ctxs[c].types_map
                    /\ tgt = Lookup(ctxs[c].types_map, v)
               ELSE /\ nsym' = nsym + 1
                    /\ Has(ctxs'[c].types_map, v)
                    /\ Lookup(ctxs'[c].types_map, v) = Sym(nsym + 1)
                    /\ tgt = Sym(nsym + 1)]_vars

\* a branch assigned a name that the enclosing context binds: the branch got
\* a symbol of its own
C5_Witness ==
    /\ last.op = "Assign" /\ last.target = Name("x") /\ err = "none"
    /\ Len(frames) = 1
    /\ Has(ctxs[1].types_map, "x")
    /\ Has(ctxs[CurrentContext(frames)].types_map, "x")
    /\ Lookup(ctxs[CurrentContext(frames)].types_map, "x")
          # Lookup(ctxs[1].types_map, "x")

\* the plain names a deletion target holds, at any depth
RECURSIVE NamesIn(_)
NamesIn(target) ==
    IF target.k = "Name" THEN {target.id}
    ELSE UNION {NamesIn(target.elts[i]) : i \in DOMAIN target.elts}

\* the target is made of plain names only
RECURSIVE NamesOnly(_)
NamesOnly(target) ==
    \/ target.k = "Name"
    \/ /\ target.k \in {"Tuple", "List"}
       /\ \A i \in DOMAIN target.elts : NamesOnly(target.elts[i])

\* C6: deleting plain names (directly or nested in tuple/list targets)
\* removes only the current context's bindings of them; the other contexts
\* and the other bindings are unchanged and no constraint is emitted for
\* them (the enclosing block's body axiom for the statement is the only one).
C6_DeleteLocalOnly ==
    [][(IsStmt("Delete") /\ NamesOnly(last'.target)) =>
        LET c == CurrentContext(frames)
            gone == NamesIn(last'.target)
        IN  /\ err' = "none"
            /\ \A d \in DOMAIN ctxs : d # c => ctxs'[d] = ctxs[d]
            /\ ctxs'[c].types_map =
                  SelectSeq(ctxs[c].types_map, LAMBDA it : it[1] \notin gone)
            /\ ctxs'[c].isinstance_nodes = ctxs[c].isinstance_nodes
            /\ nsym' = nsym /\ soft' = soft
            /\ \A a \in NewHard : a.ax = "body"
            /\ Cardinality(NewHard) <= 1]_vars

\* a branch deleted, nested in a list target, a name the enclosing context
\* binds: the enclosing binding is still there
C6_Witness ==
    /\ last.op = "Delete" /\ err = "none"
    /\ last.target = ListN(<<Name("y"), TupleN(<<Name("x")>>)>>)
    /\ Len(frames) = 1
    /\ Has(ctxs[1].types_map, "x") /\ Has(ctxs[1].types_map, "y")
    /\ ctxs[CurrentContext(frames)].types_map = <<>>

(* ====================== pre-analysis: C3 linearization ================= *)
\* most bases a class declares
MaxBases == 2

Elems(l) == {l[i] : i \in DOMAIN l}
\* sequences of distinct elements of S, in every order, up to length n
DistinctSeqs(S, n) ==
    {q \in UNION {[1..k -> S] : k \in 0..n} :
        \A i, j \in DOMAIN q : i # j => q[i] # q[j]}

\* the classes of a hierarchy, each declaring bases among the classes before
\* it (every acyclic hierarchy is one of these up to renaming)
LinClasses == <<"A", "B", "C", "D", "E">>
RECURSIVE HierarchiesUpTo(_, _)
HierarchiesUpTo(cs, n) ==
    IF n = 0 THEN {<<>>}
    ELSE {h @@ (cs[n] :> b) :
            h \in HierarchiesUpTo(cs, n - 1),
            b \in DistinctSeqs({cs[j] : j \in 1..(n - 1)}, MaxBases)}
Hierarchies(cs) == HierarchiesUpTo(cs, Len(cs))

get_non_empty_lists(ls) == SelectSeq(ls, LAMBDA l : l # <<>>)

\* mutant: the tail is searched from its second element on
InTailFromThird(head, l2) == \E i \in 3..Len(l2) : l2[i] = head

\* head in l2[1:]
InTail(head, l2) == \E i \in 2..Len(l2) : l2[i] = head

\* l2.remove(head): the list without its first occurrence of head
ListRemove(l2, head) ==
    LET i == CHOOSE k \in DOMAIN l2 :
                 l2[k] = head /\ \A m \in 1..(k - 1) : l2[m] # head
    IN  SubSeq(l2, 1, i - 1) \o SubSeq(l2, i + 1, Len(l2))

\* mutant: with no removable head, the first list's head is taken
MergeIterationForced(ls, out) ==
    LET ne == get_non_empty_lists(ls)
        free == {i \in DOMAIN ne :
                    \A j \in DOMAIN ne : ~InTail(ne[i][1], ne[j])}
        i == IF free = {} THEN 1
             ELSE CHOOSE k \in free : \A m \in free : k <= m
        head == ne[i][1]
    IN  IF ne = <<>> THEN [status |-> "done", lists |-> ne, res |-> out]
        ELSE [status |-> "continue",
              lists |-> [j \in DOMAIN ne |->
                            IF head \in Elems(ne[j])
                            THEN ListRemove(ne[j], head) ELSE ne[j]],
              res |-> Append(out, head)]

\* one iteration of merge's while loop
MergeIteration(ls, out) ==
    LET ne == get_non_empty_lists(ls)
        free == {i \in DOMAIN ne :
                    \A j \in DOMAIN ne : ~InTail(ne[i][1], ne[j])}
    IN  IF ne = <<>> THEN [status |-> "done", lists |-> ne, res |-> out]
        ELSE IF free = {}
        THEN [status |-> "raise", lists |-> ne, res |-> out]
        ELSE LET i == CHOOSE k \in free : \A m \in free : k <= m
                 head == ne[i][1]
             IN  [status |-> "continue",
                  lists |-> [j \in DOMAIN ne |->
                                IF head \in Elems(ne[j])
                                THEN ListRemove(ne[j], head) ELSE ne[j]],
                  res |-> Append(out, head)]

\* merge(*lists): the loop run to its end
RECURSIVE merge(_, _)
merge(ls, out) ==
    LET r == MergeIteration(ls, out)
    IN  CASE r.status = "done" -> [ok |-> TRUE, res |-> r.res]
          [] r.status = "raise" -> [ok |-> FALSE, res |-> r.res]
          [] OTHER -> merge(r.lists, r.res)

\* [get_linearization(x, class_to_bases) for x in bases]
RECURSIVE get_linearization(_, _)
RECURSIVE BasesLinearizations(_, _, _)
BasesLinearizations(bases, ctb, acc) ==
    IF bases = <<>> THEN [ok |-> TRUE, lins |-> acc]
    ELSE LET r == get_linearization(Head(bases), ctb)
         IN  IF ~r.ok THEN [ok |-> FALSE, lins |-> acc]
             ELSE BasesLinearizations(Tail(bases), ctb, Append(acc, r.lin))

get_linearization(cls, ctb) ==
    LET bl == BasesLinearizations(ctb[cls], ctb, <<>>)
        m == merge(Append(bl.lins, ctb[cls]), <<>>)
    IN  IF ~bl.ok \/ ~m.ok THEN [ok |-> FALSE, lin |-> <<>>]
        ELSE [ok |-> TRUE, lin |-> <<cls>> \o m.res]

(* ----------------------- linearization steps --------------------------- *)
StmtIdle ==
    /\ ctxs = <<>> /\ nsym = 0 /\ hard = <<>> /\ soft = <<>> /\ err = "none"
    /\ frames = <<>> /\ steps = 0 /\ last = Stmt("", NoNode, NoNode, NoTest)
    /\ enforce_same_type_in_branches = FALSE

InitLin ==
    /\ class_to_bases \in Hierarchies(LinClasses)
    /\ LinIdle /\ PropIdle /\ StmtIdle /\ ExtIdle

\* get_linearization(cls, class_to_bases) is called: the bases are
\* linearized and merge is entered with their linearizations and a copy of
\* the bases
LinCall ==
    \E cls \in DOMAIN class_to_bases :
        /\ lpc \in {"idle", "returned", "raised"}
        /\ LET bl == BasesLinearizations(class_to_bases[cls],
                                         class_to_bases, <<>>)
           IN  /\ lpc' = IF bl.ok THEN "merge" ELSE "raised"
               /\ lists' = IF bl.ok THEN Append(bl.lins, class_to_bases[cls])
                           ELSE <<>>
        /\ lin_cls' = cls
        /\ res' = <<>>
        /\ lin' = <<>>
        /\ UNCHANGED <<class_to_bases, lstack, propVars, stmtVars, extVars>>

\* one iteration of the loop of the outermost merge
MergeStep ==
    /\ lpc = "merge"
    /\ LET r == MergeIteration(lists, res)
       IN  /\ lists' = r.lists
           /\ res' = r.res
           /\ lpc' = CASE r.status = "done" -> "returned"
                       [] r.status = "raise" -> "raised"
                       [] OTHER -> "merge"
           /\ lin' = IF r.status = "done" THEN <<lin_cls>> \o r.res ELSE <<>>
    /\ UNCHANGED <<class_to_bases, lin_cls, lstack, propVars, stmtVars,
                   extVars>>

NextLin == LinCall \/ MergeStep

SpecLin == InitLin /\ [][NextLin]_vars

(* ===================== linearization: claims =========================== *)
\* the transitive ancestors of a class, from the declared bases alone
RECURSIVE AncestorsOf(_, _)
AncestorsOf(cls, ctb) ==
    UNION {{ctb[cls][i]} \cup AncestorsOf(ctb[cls][i], ctb) :
              i \in DOMAIN ctb[cls]}

\* the position of x in the list l
Pos(l, x) == CHOOSE i \in DOMAIN l : l[i] = x

\* C7: a linearization that get_linearization returns for a class of an
\* acyclic hierarchy starts with the class, holds the class and each of its
\* transitive ancestors exactly once, places every class before all of its
\* bases, and keeps the declared bases of every class in declaration order.
C7_LinearizationOrder ==
    lpc = "returned" =>
        LET all == AncestorsOf(lin_cls, class_to_bases) \cup {lin_cls}
        IN  /\ lin # <<>> /\ lin[1] = lin_cls
            /\ Elems(lin) = all
            /\ Len(lin) = Cardinality(all)
            /\ \A c \in all : \A i \in DOMAIN class_to_bases[c] :
                  Pos(lin, c) < Pos(lin, class_to_bases[c][i])
            /\ \A c \in all : \A i, j \in DOMAIN class_to_bases[c] :
                  i < j => Pos(lin, class_to_bases[c][i])
                              < Pos(lin, class_to_bases[c][j])

\* a class with two bases and four ancestors has been linearized
C7_Witness ==
    /\ lpc = "returned" /\ Len(lin) = 5
    /\ Len(class_to_bases[lin_cls]) = 2
    /\ \E c \in Elems(lin) \ {lin_cls} : Len(class_to_bases[c]) = 2

\* D(B, C), B(A), C(A)
DiamondHierarchy ==
    [c \in Elems(LinClasses) |->
        CASE c = "B" -> <<"A">>
          [] c = "C" -> <<"A">>
          [] c = "D" -> <<"B", "C">>
          [] OTHER -> <<>>]

\* C(A, B), D(B, A), E(C, D): the bases C and D order A and B differently
ContradictoryHierarchy ==
    [c \in Elems(LinClasses) |->
        CASE c = "C" -> <<"A", "B">>
          [] c = "D" -> <<"B", "A">>
          [] c = "E" -> <<"C", "D">>
          [] OTHER -> <<>>]

\* merge cannot go on: there are non-empty lists and the head of each occurs
\* in the tail of some list
NoHeadRemovable(ls) ==
    /\ \E i \in DOMAIN ls : ls[i] # <<>>
    /\ \A i \in DOMAIN ls : ls[i] # <<>> =>
          \E j \in DOMAIN ls : \E k \in 2..Len(ls[j]) : ls[j][k] = ls[i][1]

\* C8: linearizing the diamond D(B, C), B(A), C(A) returns, always with the
\* same order D, B, C, A; linearizing a class whose two bases order their own
\* bases in contradiction raises the inconsistent-hierarchy error; and merge
\* raises exactly when it is in a state where every non-empty list's head
\* occurs in the tail of some list.
C8_DiamondAndContradiction ==
    /\ []((class_to_bases = DiamondHierarchy /\ lin_cls = "D"
           /\ lpc \in {"returned", "raised"})
            => (lpc = "returned" /\ lin = <<"D", "B", "C", "A">>))
    /\ []((class_to_bases = ContradictoryHierarchy /\ lin_cls = "E"
           /\ lpc \in {"returned", "raised"})
            => lpc = "raised")
    /\ [][lpc = "merge" =>
            ((lpc' = "raised") <=> NoHeadRemovable(lists))]_vars

\* the merge for the class combining the contradictory bases has raised
C8_Witness ==
    /\ class_to_bases = ContradictoryHierarchy /\ lin_cls = "E"
    /\ lpc = "raised"
    /\ lists = <<<<"A", "B">>, <<"B", "A">>>>
    /\ res = <<"C", "D">>

(* ================= pre-analysis: attribute propagation ================= *)
PropClasses == <<"A", "B", "C">>

\* class-body statements: a method definition, a class-level assignment
FunctionDef(n) == [kind |-> "FunctionDef", name |-> n]
Assign(n) == [kind |-> "Assign", name |-> n]
\* the class bodies of the programs analysed: empty, one or two methods, a
\* method defined twice, a class attribute, a method and an attribute
BodyChoices ==
    {<<>>,
     <<FunctionDef("f")>>,
     <<FunctionDef("g")>>,
     <<FunctionDef("f"), FunctionDef("g")>>,
     <<FunctionDef("f"), FunctionDef("f")>>,
     <<FunctionDef("g"), Assign("f")>>}

\* the node of the i-th statement of the body of class c
NodeOf(c, stmts, i) ==
    [kind |-> stmts[i].kind, name |-> stmts[i].name, owner |-> c, idx |-> i]

\* the base expressions of a ClassDef: names, and the marker Generic[T, ..]
NameNodes(ns) == [i \in DOMAIN ns |-> Name(ns[i])]
Ids(nodes) == [i \in DOMAIN nodes |-> nodes[i].id]
GenericBase(params) ==
    [k |-> "Subscript", id |-> "Generic", elts |-> NameNodes(params)]

\* a ClassDef's bases as written: those of the hierarchy, or the explicit
\* root "object" for a class without bases
AstBases(h) ==
    {[c \in DOMAIN h |-> IF c \in S THEN <<Name("object")>>
                         ELSE NameNodes(h[c])] :
        S \in SUBSET {c \in DOMAIN h : h[c] = <<>>}}

\* the names the statements of the given kind define
DefinedNames(stmts, kind) ==
    {stmts[i].name : i \in {k \in DOMAIN stmts : stmts[k].kind = kind}}

\* mutant: only the class's own body is consulted
NamesAlreadyPresentOwn(own, inherited, kind) == DefinedNames(own, kind)

\* the names already present in the class: its body and what it inherited
\* from nearer ancestors
NamesAlreadyPresent(own, inherited, kind) ==
    DefinedNames(own \o inherited, kind)

\* func.super = parent, for every func of the list
TagSuper(tags, nodes, parent) ==
    {t \in tags : t[1] \notin Elems(nodes)}
       \cup {<<nodes[i], parent>> : i \in DOMAIN nodes}

\* {func.name: parent for func in inherited_funcs} merged into the dict
RECURSIVE UpdateSuperMap(_, _, _)
UpdateSuperMap(m, nodes, parent) ==
    IF nodes = <<>> THEN m
    ELSE UpdateSuperMap(Put(m, Head(nodes).name, parent), Tail(nodes), parent)

\* "Traverse the parents in the order given by MRO", for class cls
RECURSIVE PropagateParents(_, _, _)
PropagateParents(cls, parents, ps) ==
    IF parents = <<>> THEN ps
    ELSE IF Head(parents) = cls THEN PropagateParents(cls, Tail(parents), ps)
    ELSE LET parent == Head(parents)
             class_funcs == NamesAlreadyPresent(ps.body[cls], ps.funcs[cls],
                                                "FunctionDef")
             class_assignments ==
                 NamesAlreadyPresent(ps.body[cls], ps.attrs[cls], "Assign")
             inherited_funcs ==
                 SelectSeq(ps.body[parent],
                           LAMBDA n : n.kind = "FunctionDef"
                                      /\ n.name \notin class_funcs)
             inherited_attrs ==
                 SelectSeq(ps.body[parent],
                           LAMBDA n : n.kind = "Assign"
                                      /\ n.name \notin class_assignments)
         IN  PropagateParents(cls, Tail(parents),
                [ps EXCEPT
                   !.tags = TagSuper(TagSuper(@, inherited_funcs, parent),
                                     inherited_attrs, parent),
                   !.map[cls] = UpdateSuperMap(@, inherited_funcs, parent),
                   !.funcs[cls] = @ \o inherited_funcs,
                   !.attrs[cls] = @ \o inherited_attrs])

\* mutant: the inherited definitions are added to the AST at once
PropagateOneClassEager(cls, linearization, ps) ==
    LET r == PropagateParents(cls, linearization,
                [ps EXCEPT !.funcs = (cls :> <<>>) @@ @,
                           !.attrs = (cls :> <<>>) @@ @])
    IN  [r EXCEPT !.body[cls] = @ \o r.funcs[cls] \o r.attrs[cls]]

\* one iteration of the second loop of propagate_attributes_to_subclasses
PropagateOneClass(cls, linearization, ps) ==
    PropagateParents(cls, linearization,
        [ps EXCEPT !.funcs = (cls :> <<>>) @@ @,
                   !.attrs = (cls :> <<>>) @@ @])

\* "Add the inherited functions to the AST."
AddInheritedToAst(ps) ==
    [c \in DOMAIN ps.body |-> ps.body[c] \o ps.funcs[c] \o ps.attrs[c]]

PropState ==
    [body |-> body, funcs |-> class_to_inherited_funcs,
     attrs |-> class_to_inherited_attrs,
     map |-> class_inherited_funcs_to_super, tags |-> node_super]

InitProp ==
    /\ \E h \in Hierarchies(PropClasses) : ast_bases \in AstBases(h)
    /\ prog \in [Elems(PropClasses) -> BodyChoices]
    /\ class_defs \in {q \in DistinctSeqs(Elems(PropClasses), Len(PropClasses)) :
                          Len(q) = Len(PropClasses)}
    /\ body = [c \in Elems(PropClasses) |->
                  [i \in DOMAIN prog[c] |-> NodeOf(c, prog[c], i)]]
    /\ node_super = {}
    /\ class_to_inherited_funcs = <<>> /\ class_to_inherited_attrs = <<>>
    /\ class_inherited_funcs_to_super = <<>>
    /\ ppc = "start" /\ pidx = 1
    /\ class_to_bases = <<>>
    /\ LinIdle /\ StmtIdle /\ ExtIdle

\* the first loop: class_to_bases, class_to_node, the empty donor maps
PropBuildMaps ==
    /\ ppc = "start"
    /\ class_to_bases' =
          [c \in Elems(class_defs) |->
              Ids(SelectSeq(ast_bases[c],
                            LAMBDA x : x.k = "Name" /\ x.id # "object"))]
    /\ class_inherited_funcs_to_super' = [c \in Elems(class_defs) |-> <<>>]
    /\ ppc' = "loop"
    /\ UNCHANGED <<class_defs, ast_bases, prog, body, node_super,
                   class_to_inherited_funcs, class_to_inherited_attrs, pidx,
                   lists, res, lin_cls, lin, lpc, lstack, stmtVars,
                   extVars>>

\* the second loop, for the class at pidx
PropagateClass ==
    /\ ppc = "loop" /\ pidx <= Len(class_defs)
    /\ LET cls == class_defs[pidx]
           l == get_linearization(cls, class_to_bases)
           r == PropagateOneClass(cls, l.lin, PropState)
       IN  IF l.ok
           THEN /\ body' = r.body
                /\ class_to_inherited_funcs' = r.funcs
                /\ class_to_inherited_attrs' = r.attrs
                /\ class_inherited_funcs_to_super' = r.map
                /\ node_super' = r.tags
                /\ ppc' = "loop"
           ELSE /\ ppc' = "raised"
                /\ UNCHANGED <<body, class_to_inherited_funcs,
                               class_to_inherited_attrs,
                               class_inherited_funcs_to_super, node_super>>
    /\ pidx' = pidx + 1
    /\ UNCHANGED <<class_defs, ast_bases, prog, class_to_bases,
                   lists, res, lin_cls, lin, lpc, lstack, stmtVars,
                   extVars>>

\* the third loop and the return
PropAddToAst ==
    /\ ppc = "loop" /\ pidx > Len(class_defs)
    /\ body' = AddInheritedToAst(PropState)
    /\ ppc' = "done"
    /\ UNCHANGED <<class_defs, ast_bases, prog, class_to_bases, node_super,
                   class_to_inherited_funcs, class_to_inherited_attrs,
                   class_inherited_funcs_to_super, pidx,
                   lists, res, lin_cls, lin, lpc, lstack, stmtVars,
                   extVars>>

NextProp == PropBuildMaps \/ PropagateClass \/ PropAddToAst

SpecProp == InitProp /\ [][NextProp]_vars

(* ===================== propagation: claims ============================= *)
\* the linearization of class c
LinOf(c) == get_linearization(c, class_to_bases).lin
\* the method names the original body of class c defines
OwnMethods(c) == DefinedNames(prog[c], "FunctionDef")
\* the method names class c can inherit, and the first class after c in its
\* linearization that defines m
Inheritable(c) ==
    UNION {OwnMethods(LinOf(c)[i]) : i \in 2..Len(LinOf(c))} \ OwnMethods(c)
Donor(c, m) ==
    LinOf(c)[CHOOSE i \in 2..Len(LinOf(c)) :
                /\ m \in OwnMethods(LinOf(c)[i])
                /\ \A j \in 2..(i - 1) : m \notin OwnMethods(LinOf(c)[j])]
\* the definitions of method m in a list of nodes
DefsOf(nodes, m) ==
    SelectSeq(nodes, LAMBDA n : n.kind = "FunctionDef" /\ n.name = m)
\* the nodes of the original body of class c
OwnNodes(c) == [i \in DOMAIN prog[c] |-> NodeOf(c, prog[c], i)]

C10_OrderIndependent ==
    ppc = "done" =>
        \A c \in Elems(class_defs) :
            LET l == LinOf(c)
                shadowed(n) ==
                    \E j \in 1..(Pos(l, n.owner) - 1) :
                        n.name \in DefinedNames(prog[l[j]], n.kind)
                expected ==
                    {n \in UNION {Elems(OwnNodes(l[i])) : i \in 2..Len(l)} :
                        ~shadowed(n)}
            IN  /\ DefinedNames(body[c], "FunctionDef")
                      = UNION {OwnMethods(l[i]) : i \in DOMAIN l}
                /\ SubSeq(body[c], 1, Len(prog[c])) = OwnNodes(c)
                /\ {body[c][i] : i \in (Len(prog[c]) + 1)..Len(body[c])}
                      = expected
                /\ Len(body[c]) = Len(prog[c]) + Cardinality(expected)
                /\ Keys(class_inherited_funcs_to_super[c]) = Inheritable(c)
                /\ \A m \in Inheritable(c) :
                      Lookup(class_inherited_funcs_to_super[c], m)
                         = Donor(c, m)

\* C(B), B(A) listed as C, B, A with f defined by A only: C, processed
\* before B, received f
C10_Witness ==
    /\ ppc = "done"
    /\ class_defs = <<"C", "B", "A">>
    /\ class_to_bases["C"] = <<"B">> /\ class_to_bases["B"] = <<"A">>
    /\ prog["A"] = <<FunctionDef("f")>>
    /\ prog["B"] = <<>> /\ prog["C"] = <<>>
    /\ DefinedNames(body["C"], "FunctionDef") = {"f"}
    /\ DefinedNames(body["B"], "FunctionDef") = {"f"}

(* ================= pre-analysis: analyze_classes ======================= *)
\* the class bodies of the programs analysed: no statement, a constructor,
\* a method and a class attribute, a constructor defined twice
ClassBodyChoices ==
    {<<>>,
     <<FunctionDef("__init__")>>,
     <<FunctionDef("f"), Assign("v")>>,
     <<FunctionDef("__init__"), FunctionDef("__init__")>>}

\* the bases as written, where at most one class also declares the marker
\* Generic[T], before or after its true bases
AstBasesGeneric(h) ==
    UNION {{a} \cup
           {[a EXCEPT ![c] = <<GenericBase(<<"T">>)>> \o NameNodes(h[c])] :
               c \in DOMAIN h}
           \cup
           {[a EXCEPT ![c] = NameNodes(h[c]) \o <<GenericBase(<<"T">>)>>] :
               c \in {d \in DOMAIN h : h[d] # <<>>}} :
           a \in AstBases(h)}

\* a key of class_to_base: the class name, or for a generic class the tuple
\* of the name and the names of its argument accessors
StrKey(name) == [tuple |-> FALSE, items |-> <<name>>]
TupleKey(items) == [tuple |-> TRUE, items |-> items]

IsGenericMarker(b) == b.k = "Subscript" /\ b.id = "Generic"
\* real_bases and class_type_params of a ClassDef
RealBases(bases) == SelectSeq(bases, LAMBDA b : ~IsGenericMarker(b))
TypeParamBases(bases) ==
    SelectSeq(bases, LAMBDA b : b \notin Elems(RealBases(bases)))

\* conf.class_type_params after the marker's parameters are registered
RegisterTypeParams(ctp, name, bases) ==
    IF TypeParamBases(bases) # <<>>
    THEN Put(ctp, name, Ids(TypeParamBases(bases)[1].elts))
    ELSE ctp

\* the key under which the class is recorded
ClassKey(ctp, name) ==
    IF Has(ctp, name)
    THEN TupleKey(<<name>> \o [i \in DOMAIN Lookup(ctp, name) |->
                                 name \o "_arg_" \o Lookup(ctp, name)[i]])
    ELSE StrKey(name)

\* [x.id for x in cls.bases] if real_bases else ["object"]; a Subscript has
\* no attribute id
BaseNames(bases) ==
    IF RealBases(bases) = <<>> THEN [ok |-> TRUE, names |-> <<"object">>]
    ELSE IF \E i \in DOMAIN bases : bases[i].k # "Name"
    THEN [ok |-> FALSE, names |-> <<>>]
    ELSE [ok |-> TRUE, names |-> Ids(bases)]

\* the constructor add_init_if_not_existing synthesizes for a class
InitMethod(cls) ==
    [kind |-> "FunctionDef", name |-> "__init__", owner |-> cls, idx |-> 0]

\* mutant: the constructor is appended whatever the body holds
add_init_always(cls, stmts) == Append(stmts, InitMethod(cls))

\* add_init_if_not_existing: the body of the class afterwards
add_init_if_not_existing(cls, stmts) ==
    IF \E i \in DOMAIN stmts :
          stmts[i].kind = "FunctionDef" /\ stmts[i].name = "__init__"
    THEN stmts
    ELSE Append(stmts, InitMethod(cls))

\* (len(args), decorators, len(defaults)) of a method: the methods of the
\* programs analysed, like the synthesized constructor, take the receiver
\* only and carry no decorator
FuncEntry(node) == <<1, <<>>, 0>>

\* class_funcs after the class-level statements are inspected
RECURSIVE ClassFuncs(_, _)
ClassFuncs(stmts, acc) ==
    IF stmts = <<>> THEN acc
    ELSE ClassFuncs(Tail(stmts),
            IF Head(stmts).kind = "FunctionDef"
            THEN Put(acc, Head(stmts).name, FuncEntry(Head(stmts)))
            ELSE acc)

\* class_attributes: the methods and the class-level assignments; the
\* methods of the programs analysed assign no attribute of the receiver, so
\* instance_attributes holds the same names
ClassAttributes(stmts) == {stmts[i].name : i \in DOMAIN stmts}

InitClasses ==
    /\ \E h \in Hierarchies(PropClasses) : ast_bases \in AstBasesGeneric(h)
    /\ prog \in [Elems(PropClasses) -> ClassBodyChoices]
    /\ class_defs \in {<<"A", "B", "C">>, <<"C", "A", "B">>}
    /\ body = [c \in Elems(PropClasses) |->
                  [i \in DOMAIN prog[c] |-> NodeOf(c, prog[c], i)]]
    /\ node_super = {}
    /\ class_to_inherited_funcs = <<>> /\ class_to_inherited_attrs = <<>>
    /\ class_inherited_funcs_to_super = <<>>
    /\ ppc = "start" /\ pidx = 1
    /\ class_to_bases = <<>>
    /\ class_to_base = <<>> /\ class_to_funcs = <<>>
    /\ class_type_params \in {<<>>, <<<<"B", <<"B0">>>>>>}
    /\ remove_later = {}
    /\ class_to_class_attributes = <<>>
    /\ class_to_instance_attributes = <<>>
    /\ apc = "called" /\ aidx = 1
    /\ LinIdle /\ StmtIdle /\ FnIdle /\ ConfIdle /\ RunIdle

\* one iteration of the loop of analyze_classes, for the class at aidx
AnalyzeClass ==
    /\ apc = "called" /\ ppc = "done" /\ aidx <= Len(class_defs)
    /\ LET cls == class_defs[aidx]
           ctp == RegisterTypeParams(class_type_params, cls, ast_bases[cls])
           key == ClassKey(ctp, cls)
           bn == BaseNames(ast_bases[cls])
           stmts == add_init_if_not_existing(cls, body[cls])
       IN  /\ class_type_params' = ctp
           /\ IF bn.ok
              THEN /\ class_to_base' = Put(class_to_base, key, bn.names)
                   /\ body' = [body EXCEPT ![cls] = stmts]
                   /\ remove_later' =
                         remove_later \cup (Elems(stmts) \ Elems(body[cls]))
                   /\ class_to_funcs' =
                         Put(class_to_funcs, cls, ClassFuncs(stmts, <<>>))
                   /\ class_to_class_attributes' =
                         Put(class_to_class_attributes, cls,
                             ClassAttributes(stmts))
                   /\ class_to_instance_attributes' =
                         Put(class_to_instance_attributes, cls,
                             ClassAttributes(stmts))
                   /\ apc' = "called"
              ELSE /\ apc' = "AttributeError"
                   /\ UNCHANGED <<class_to_base, body, remove_later,
                                  class_to_funcs, class_to_class_attributes,
                                  class_to_instance_attributes>>
    /\ aidx' = aidx + 1
    /\ UNCHANGED <<class_defs, ast_bases, prog, node_super,
                   class_to_inherited_funcs, class_to_inherited_attrs,
                   class_inherited_funcs_to_super, ppc, pidx,
                   linVars, stmtVars, exceptCls>>

\* the loop is over: the tables are returned
AnalyzeReturn ==
    /\ apc = "called" /\ ppc = "done" /\ aidx > Len(class_defs)
    /\ apc' = "done"
    /\ UNCHANGED <<class_to_base, class_to_funcs, class_type_params,
                   class_to_class_attributes, class_to_instance_attributes,
                   remove_later, aidx, preVars, stmtVars, exceptCls>>

NextClasses ==
    PropBuildMaps \/ PropagateClass \/ PropAddToAst \/ AnalyzeClass
      \/ AnalyzeReturn

SpecClasses == InitClasses /\ [][NextClasses]_vars

(* ===================== analyze_classes: claims ========================= *)
\* the statements of the body of class c that were not synthesized
Propagated(c) == SelectSeq(body[c], LAMBDA n : n \notin remove_later)
\* the __init__ definitions class c is due: its own, else those of the
\* first class of its linearization that defines __init__, else the
\* synthesized one
ExpectedInits(c) ==
    IF "__init__" \in OwnMethods(c) THEN DefsOf(OwnNodes(c), "__init__")
    ELSE IF "__init__" \in Inheritable(c)
    THEN DefsOf(OwnNodes(Donor(c, "__init__")), "__init__")
    ELSE <<InitMethod(c)>>

\* C11 as stated: after analyze_classes, every analysed class body contains
\* exactly one __init__ definition, the method table of the class has an
\* __init__ entry, and the synthesized constructor is in the body exactly
\* when the body after propagation holds no __init__.
C11_AsStated ==
    apc = "done" =>
        \A c \in Elems(class_defs) :
            /\ Len(DefsOf(body[c], "__init__")) = 1
            /\ Has(Lookup(class_to_funcs, c), "__init__")
            /\ InitMethod(c) \in Elems(body[c])
                  <=> DefsOf(Propagated(c), "__init__") = <<>>

\* C11 (amended): after analyze_classes, every analysed class body contains
\* at least one __init__ definition: the definitions of its own body, else
\* those inherited from the first class of its linearization that defines
\* __init__, else the single synthesized one (so exactly one unless that
\* class defines __init__ more than once); the method table of the class
\* has an __init__ entry; and the synthesized constructor is in the body
\* exactly when the body after propagation holds no __init__.
C11_InitInEveryClass ==
    apc = "done" =>
        \A c \in Elems(class_defs) :
            /\ DefsOf(body[c], "__init__") = ExpectedInits(c)
            /\ Len(DefsOf(body[c], "__init__")) >= 1
            /\ Len(ExpectedInits(c)) = 1
                  => Len(DefsOf(body[c], "__init__")) = 1
            /\ Has(Lookup(class_to_funcs, c), "__init__")
            /\ InitMethod(c) \in Elems(body[c])
                  <=> DefsOf(Propagated(c), "__init__") = <<>>
            /\ InitMethod(c) \in Elems(body[c])
                  <=> \A i \in DOMAIN LinOf(c) :
                         "__init__" \notin OwnMethods(LinOf(c)[i])

\* C(A) inherits the constructor of A and B declares none: after the
\* analysis B holds the synthesized constructor, C holds A's and no other
C11_Witness ==
    /\ apc = "done"
    /\ class_to_bases["C"] = <<"A">> /\ class_to_bases["B"] = <<>>
    /\ prog["A"] = <<FunctionDef("__init__")>>
    /\ prog["B"] = <<FunctionDef("f"), Assign("v")>>
    /\ prog["C"] = <<>>
    /\ InitMethod("B") \in Elems(body["B"])
    /\ body["C"] = <<NodeOf("A", prog["A"], 1)>>

\* the names of the true bases of class c in declaration order, or the
\* universal root when it declares none
TrueBaseNames(c) ==
    LET true_bases == SelectSeq(ast_bases[c], LAMBDA b : b.k = "Name")
    IN  IF true_bases = <<>> THEN <<"object">> ELSE Ids(true_bases)

\* C12: for every class definition analyze_classes has gone through, the
\* base-class list recorded under the key of the class is the list of the
\* names of its true bases in declaration order, the marker Generic[...]
\* excluded, and is <<"object">> when the class declares no true base, also
\* for a class that declares both a marker and true bases.
C12_AsStated ==
    \A i \in 1..(aidx - 1) :
        LET c == class_defs[i]
        IN  /\ Has(class_to_base, ClassKey(class_type_params, c))
            /\ Lookup(class_to_base, ClassKey(class_type_params, c))
                  = TrueBaseNames(c)

(* ================= pre-analysis: analyze_functions ===================== *)
\* Identifiers are sequences of characters here: the code iterates over the
\* characters of names and appends digits to them.
\* a TypeVar declaration name = TypeVar(..) of a module; module "" is a stub
\* node, which has no _module attribute
TypeVarDecl(module, name) == [module |-> module, name |-> name]

\* the TypeVar declarations of the programs analysed
TypeVarPrograms ==
    {<<TypeVarDecl("m1", <<"T">>)>>,
     <<TypeVarDecl("m1", <<"T">>), TypeVarDecl("m1", <<"U">>)>>,
     <<TypeVarDecl("m1", <<"T">>), TypeVarDecl("m2", <<"T">>)>>,
     <<TypeVarDecl("m1", <<"f", "0">>)>>,
     <<TypeVarDecl("m1", <<"T">>), TypeVarDecl("", <<"U">>)>>,
     <<TypeVarDecl("m1", <<"T">>), TypeVarDecl("m1", <<"U">>),
       TypeVarDecl("m2", <<"T">>)>>}

\* a FunctionDef: its name, its module ("" for a stub node), the names its
\* parameter annotations and then its return annotation mention, in walk
\* order, whether it has a _containing_class, and the names the bases of
\* that class mention
FuncNode(name, module, annotations, in_class, class_bases) ==
    [name |-> name, module |-> module, annotations |-> annotations,
     in_class |-> in_class, class_bases |-> class_bases]

\* def f(a: T, b: U) -> T
FuncF == FuncNode(<<"f">>, "m1", <<<<<<"T">>>>, <<<<"U">>>>, <<<<"T">>>>>>,
                  FALSE, {})
\* def g(a: U, b: T)
FuncG == FuncNode(<<"g">>, "m1", <<<<<<"U">>>>, <<<<"T">>>>>>, FALSE, {})
\* class Box(Generic[T]): def get(self, x: D[T, U], y: T) -> U
FuncGet ==
    FuncNode(<<"g", "e", "t">>, "m1",
             <<<<<<"D">>, <<"T">>, <<"U">>>>, <<<<"T">>>>, <<<<"U">>>>>>,
             TRUE, {<<"G", "e", "n", "e", "r", "i", "c">>, <<"T">>})
\* def h(a: L[T]) -> T, in the second module
FuncH == FuncNode(<<"h">>, "m2", <<<<<<"L">>, <<"T">>>>, <<<<"T">>>>>>,
                  FALSE, {})
\* def k(a: T) -> T, in a stub file
FuncK == FuncNode(<<"k">>, "", <<<<<<"T">>>>, <<<<"T">>>>>>, FALSE, {})

FunctionPrograms ==
    {<<>>, <<FuncF>>, <<FuncG, FuncGet>>, <<FuncGet, FuncH>>,
     <<FuncF, FuncK>>, <<FuncH, FuncG>>}

\* str(current)
RECURSIVE DigitsOf(_)
DigitsOf(n) ==
    IF n < 10 THEN <<ToString(n)>>
    ELSE DigitsOf(n \div 10) \o <<ToString(n % 10)>>

\* {str(item) for entry in dict(type_params, **class_type_params)
\*            for item in entry}: iterating the dict yields its keys, and
\* iterating a key yields its characters
ExistingTypeVars(tp, ctp) ==
    UNION {{<<key[i]>> : i \in DOMAIN key} : key \in Keys(tp) \cup Keys(ctp)}

\* while tv_id + str(current) in existing_type_vars: current += 1
RECURSIVE FirstFree(_, _, _)
FirstFree(tv_id, existing, current) ==
    IF (tv_id \o DigitsOf(current)) \in existing
    THEN FirstFree(tv_id, existing, current + 1)
    ELSE current

\* the identifier given to the type variable tv_name
TypeVarId(tv_name, existing) ==
    IF tv_name \in existing
    THEN tv_name \o DigitsOf(FirstFree(tv_name, existing, 0))
    ELSE tv_name

\* list(OrderedDict.fromkeys(l)): duplicates removed, first occurrences kept
RECURSIVE Dedup(_, _)
Dedup(l, acc) ==
    IF l = <<>> THEN acc
    ELSE Dedup(Tail(l), IF Head(l) \in Elems(acc) THEN acc
                        ELSE Append(acc, Head(l)))

\* the names of the type variables conf.type_vars holds for a module
LocalTypeVars(tvs, module) ==
    {key[2] : key \in {k \in Keys(tvs) : k[1] = module}}

\* tv_refs of one annotation
TvRefs(func, annotation, local) ==
    LET tv_refs == Dedup(SelectSeq(annotation, LAMBDA n : n \in local), <<>>)
        class_tvs == func.class_bases \cap local
    IN  IF func.in_class
        THEN SelectSeq(tv_refs, LAMBDA tvr : tvr \notin class_tvs)
        ELSE tv_refs

\* all_tv_refs, a set, after every annotation is scanned
AllTvRefs(func, local) ==
    UNION {Elems(TvRefs(func, func.annotations[i], local)) :
              i \in DOMAIN func.annotations}

\* the orders in which iterating a set of strings can yield its elements
IterationOrders(S) ==
    {q \in DistinctSeqs(S, Cardinality(S)) : Len(q) = Cardinality(S)}

InitFuncs ==
    /\ tv_nodes \in TypeVarPrograms
    /\ functions \in FunctionPrograms
    /\ type_params \in {<<>>, <<<<<<"f">>, <<<<"f", "0">>>>>>>>}
    /\ class_type_params \in
          {<<>>,
           <<<<<<"T">>, <<<<"T", "0">>>>>>>>,
           <<<<<<"B", "o", "x">>, <<<<"T">>>>>>>>}
    /\ type_vars = <<>>
    /\ tidx = 1 /\ fidx = 1
    /\ class_to_base = <<>> /\ class_to_funcs = <<>> /\ remove_later = {}
    /\ class_to_class_attributes = <<>>
    /\ class_to_instance_attributes = <<>>
    /\ apc = "idle" /\ aidx = 0
    /\ class_to_bases = <<>> /\ LinIdle /\ PropIdle /\ StmtIdle /\ ConfIdle
    /\ RunIdle

\* one iteration of the first loop: the declaration at tidx gets its
\* identifier
RegisterTypeVar ==
    /\ tidx >= 1 /\ tidx <= Len(tv_nodes)
    /\ LET tv == tv_nodes[tidx]
           existing_type_vars ==
               ExistingTypeVars(type_params, class_type_params)
       IN  type_vars' =
              IF tv.module = "" THEN type_vars
              ELSE Put(type_vars, <<tv.module, tv.name>>,
                       TypeVarId(tv.name, existing_type_vars))
    /\ tidx' = tidx + 1
    /\ UNCHANGED <<tv_nodes, functions, type_params, fidx, exceptFn,
                   preVars, stmtVars>>

\* one iteration of the second loop: the type-parameter list of the
\* function at fidx is registered
RegisterFunction ==
    /\ tidx > Len(tv_nodes) /\ fidx >= 1 /\ fidx <= Len(functions)
    /\ LET func == functions[fidx]
           local_type_vars == LocalTypeVars(type_vars, func.module)
           all_tv_refs == AllTvRefs(func, local_type_vars)
       IN  IF all_tv_refs # {}
           THEN \E order \in IterationOrders(all_tv_refs) :
                   type_params' =
                      Put(type_params, func.name,
                          [i \in DOMAIN order |->
                              Lookup(type_vars, <<func.module, order[i]>>)])
           ELSE UNCHANGED type_params
    /\ fidx' = fidx + 1
    /\ UNCHANGED <<tv_nodes, functions, type_vars, tidx, exceptFn,
                   preVars, stmtVars>>

NextFuncs == RegisterTypeVar \/ RegisterFunction

SpecFuncs == InitFuncs /\ [][NextFuncs]_vars

(* ===================== analyze_functions: claims ======================= *)
\* the type-parameter names reserved in the function and class tables
ReservedNames ==
    UNION {Elems(type_params[i][2]) : i \in DOMAIN type_params}
      \cup UNION {Elems(class_type_params[i][2]) :
                     i \in DOMAIN class_type_params}

\* C13: the identifier analyze_functions assigns to a declared type variable
\* never equals a type-parameter name reserved in the function or class
\* type-parameter tables it was given, and type variables declared under
\* the same name in two different modules receive different identifiers.
\* (Stated while no function is registered yet, when the tables are still
\* the ones the identifiers were chosen against.)
C13_AsStated ==
    fidx = 1 =>
        /\ \A i \in DOMAIN type_vars : type_vars[i][2] \notin ReservedNames
        /\ \A i, j \in DOMAIN type_vars :
              (/\ type_vars[i][1][2] = type_vars[j][1][2]
               /\ type_vars[i][1][1] # type_vars[j][1][1])
                 => type_vars[i][2] # type_vars[j][2]

\* the names all the annotations of a function mention, in order
RECURSIVE Flatten(_)
Flatten(ls) == IF ls = <<>> THEN <<>> ELSE Head(ls) \o Flatten(Tail(ls))
\* the type variables declared in a module
DeclaredIn(module) ==
    {tv_nodes[i].name :
        i \in {k \in DOMAIN tv_nodes :
                  tv_nodes[k].module = module /\ module # ""}}
\* the type variables of its own module a function's annotations mention and
\* its enclosing class does not bind, in order of first occurrence
Referenced(func) ==
    Dedup(SelectSeq(Flatten(func.annotations),
                    LAMBDA n : /\ n \in DeclaredIn(func.module)
                               /\ ~(func.in_class /\ n \in func.class_bases)),
          <<>>)

\* C14: for every function gone through whose annotations mention type
\* variables of its own module that its enclosing class does not bind, the
\* registered type-parameter list holds the identifier of each such
\* variable exactly once, in order of first occurrence in the annotations
\* (and is therefore the same list on every run).
C14_AsStated ==
    tidx > Len(tv_nodes) =>
        \A i \in 1..(fidx - 1) :
            LET func == functions[i]
                expected == Referenced(func)
            IN  expected # <<>> =>
                   /\ Has(type_params, func.name)
                   /\ Lookup(type_params, func.name)
                         = [k \in DOMAIN expected |->
                               Lookup(type_vars, <<func.module, expected[k]>>)]

(* ============ pre-analysis: maxima and constructor universe ============ *)
\* largest parameter count and tuple length in the programs analysed
MaxArity == 3

Max(S) == CHOOSE m \in S : \A x \in S : x <= m

\* max([len(..) for node in nodes] + [floor])
MaxWithFloor(lens, floor) == Max(Elems(lens) \cup {floor})

maximum_function_args(user, stub) ==
    Max({MaxWithFloor(user, 1), MaxWithFloor(stub, 1)})

maximum_tuple_length(user, stub) ==
    Max({MaxWithFloor(user, 0), MaxWithFloor(stub, 0)})

\* typpete.constants: the table of the built-in classes and the names that
\* are aliases of built-in classes
BUILTINS ==
    <<<<StrKey("object"), <<>>>>, <<StrKey("tuple"), <<"object">>>>,
      <<StrKey("int"), <<"object">>>>>>
ALIASES == {"List"}

\* the key of the tuple constructor of a length
TupleConstructor(cur_len) ==
    LET name == "tuple_" \o ToString(cur_len)
        tuple_args ==
            [cur_arg \in 1..cur_len |-> name \o "_arg_" \o ToString(cur_arg)]
    IN  IF tuple_args # <<>> THEN TupleKey(<<name>> \o tuple_args)
        ELSE StrKey(name)

\* the key of the function constructor of an arity
FuncConstructor(cur_len) ==
    LET name == "func_" \o ToString(cur_len)
        func_args ==
            <<name \o "_defaults_args">>
              \o [cur_arg \in 1..cur_len |->
                     name \o "_arg_" \o ToString(cur_arg)]
              \o <<name \o "_return">>
    IN  TupleKey(<<name>> \o func_args)

\* for cur_len in range(self.max_tuple_length + 1)
RECURSIVE AddTupleConstructors(_, _, _)
AddTupleConstructors(builtins, cur_len, max) ==
    IF cur_len > max THEN builtins
    ELSE AddTupleConstructors(
            Put(builtins, TupleConstructor(cur_len), <<"tuple">>),
            cur_len + 1, max)

\* mutant: the loop stops one short of the maximum
RECURSIVE AddFuncConstructorsShort(_, _, _)
AddFuncConstructorsShort(builtins, cur_len, max) ==
    IF cur_len >= max THEN builtins
    ELSE AddFuncConstructorsShort(
            Put(builtins, FuncConstructor(cur_len), <<"object">>),
            cur_len + 1, max)

\* for cur_len in range(self.max_function_args + 1)
RECURSIVE AddFuncConstructors(_, _, _)
AddFuncConstructors(builtins, cur_len, max) ==
    IF cur_len > max THEN builtins
    ELSE AddFuncConstructors(
            Put(builtins, FuncConstructor(cur_len), <<"object">>),
            cur_len + 1, max)

\* the classes of class_to_base under their solver-level names
RECURSIVE AddUserClasses(_, _)
AddUserClasses(classes, items) ==
    IF items = <<>> THEN classes
    ELSE LET key == Head(items)[1]
             val == Head(items)[2]
             name == key.items[1]
             ukey == [key EXCEPT !.items[1] = "class_" \o name]
             uval == [i \in DOMAIN val |->
                         IF val[i] = "object" THEN "object"
                         ELSE "class_" \o val[i]]
         IN  AddUserClasses(IF name \in ALIASES THEN classes
                            ELSE Put(classes, ukey, uval),
                            Tail(items))

complete_class_to_base(tuple_length, function_args, ctb) ==
    AddUserClasses(
        AddFuncConstructors(AddTupleConstructors(BUILTINS, 0, tuple_length),
                            0, function_args),
        ctb)

\* the class tables analyze_classes hands over
ClassTables ==
    {<<>>,
     <<<<StrKey("A"), <<"object">>>>,
       <<TupleKey(<<"B", "B_arg_T">>), <<"A">>>>>>,
     <<<<StrKey("List"), <<"object">>>>, <<StrKey("C"), <<"List">>>>>>}

\* Configuration(class_type_params, type_params), for a program and stubs
InitConf ==
    /\ user_func_defs \in SeqsUpTo(0..MaxArity, 2)
    /\ stub_func_defs \in SeqsUpTo(0..MaxArity, 1)
    /\ user_tuples \in SeqsUpTo(0..MaxArity, 1)
    /\ stub_tuples \in SeqsUpTo(0..MaxArity, 1)
    /\ max_tuple_length = 0
    /\ max_function_args = 1
    /\ all_classes = <<>>
    /\ cpc = "created"
    /\ class_to_base \in ClassTables
    /\ class_to_funcs = <<>> /\ class_type_params = <<>>
    /\ remove_later = {}
    /\ class_to_class_attributes = <<>>
    /\ class_to_instance_attributes = <<>>
    /\ apc = "idle" /\ aidx = 0
    /\ class_to_bases = <<>> /\ LinIdle /\ PropIdle /\ StmtIdle /\ FnIdle
    /\ RunIdle

\* config.max_tuple_length = self.maximum_tuple_length()
MaximumTupleLength ==
    /\ cpc = "created"
    /\ max_tuple_length' = maximum_tuple_length(user_tuples, stub_tuples)
    /\ cpc' = "tuples"
    /\ UNCHANGED <<user_func_defs, stub_func_defs, user_tuples, stub_tuples,
                   max_function_args, all_classes, clsVars, exceptConf,
                   preVars, stmtVars>>

\* config.max_function_args = self.maximum_function_args()
MaximumFunctionArgs ==
    /\ cpc = "tuples"
    /\ max_function_args' =
          maximum_function_args(user_func_defs, stub_func_defs)
    /\ cpc' = "maxima"
    /\ UNCHANGED <<user_func_defs, stub_func_defs, user_tuples, stub_tuples,
                   max_tuple_length, all_classes, clsVars, exceptConf,
                   preVars, stmtVars>>

\* config.complete_class_to_base()
CompleteClassToBase ==
    /\ cpc = "maxima"
    /\ all_classes' = complete_class_to_base(max_tuple_length,
                                             max_function_args, class_to_base)
    /\ cpc' = "done"
    /\ UNCHANGED <<user_func_defs, stub_func_defs, user_tuples, stub_tuples,
                   max_tuple_length, max_function_args, clsVars, exceptConf,
                   preVars, stmtVars>>

NextConf == MaximumTupleLength \/ MaximumFunctionArgs \/ CompleteClassToBase

SpecConf == InitConf /\ [][NextConf]_vars

(* ===================== constructor universe: claims ==================== *)
\* the keys of all_classes whose class name is the given one
KeysNamed(name) == {key \in Keys(all_classes) : key.items[1] = name}
\* the accessor names of a key
Accessors(key) == SubSeq(key.items, 2, Len(key.items))

\* C15: after complete_class_to_base, max_function_args is the largest
\* parameter count of the program and the stubs and at least 1,
\* max_tuple_length the largest tuple length and at least 0; all_classes
\* holds exactly one tuple constructor for every length 0..max_tuple_length,
\* with that many argument accessors, and exactly one function constructor
\* for every arity 0..max_function_args, with one defaults accessor, that
\* many argument accessors and one return accessor; and none for a larger
\* length or arity.
C15_ConstructorUniverse ==
    cpc = "done" =>
        /\ max_function_args >= 1 /\ max_tuple_length >= 0
        /\ max_function_args
              = Max(Elems(user_func_defs) \cup Elems(stub_func_defs) \cup {1})
        /\ max_tuple_length
              = Max(Elems(user_tuples) \cup Elems(stub_tuples) \cup {0})
        /\ \A n \in 0..(MaxArity + 1) :
              LET name == "tuple_" \o ToString(n)
              IN  IF n <= max_tuple_length
                  THEN /\ Cardinality(KeysNamed(name)) = 1
                       /\ \A key \in KeysNamed(name) :
                             /\ Accessors(key) =
                                   [i \in 1..n |->
                                       name \o "_arg_" \o ToString(i)]
                             /\ Lookup(all_classes, key) = <<"tuple">>
                  ELSE KeysNamed(name) = {}
        /\ \A n \in 0..(MaxArity + 1) :
              LET name == "func_" \o ToString(n)
              IN  IF n <= max_function_args
                  THEN /\ Cardinality(KeysNamed(name)) = 1
                       /\ \A key \in KeysNamed(name) :
                             /\ Len(Accessors(key)) = n + 2
                             /\ Accessors(key)[1] = name \o "_defaults_args"
                             /\ \A i \in 1..n :
                                   Accessors(key)[i + 1]
                                      = name \o "_arg_" \o ToString(i)
                             /\ Accessors(key)[n + 2] = name \o "_return"
                  ELSE KeysNamed(name) = {}

\* a program with no function and no tuple, and stubs with none: the
\* universe holds tuple_0, func_0 and func_1
C15_Witness ==
    /\ cpc = "done"
    /\ user_func_defs = <<>> /\ stub_func_defs = <<>>
    /\ user_tuples = <<>> /\ stub_tuples = <<>>
    /\ max_function_args = 1 /\ max_tuple_length = 0
    /\ StrKey("tuple_0") \in Keys(all_classes)
    /\ FuncConstructor(0) \in Keys(all_classes)
    /\ FuncConstructor(1) \in Keys(all_classes)


(* ================= statement inferrer: class definitions =============== *)
\* most parameters of a method
MaxParams == 2

\* the types annotations name, and the solver's subtype relation on them
AnnotationTypes == {"int", "object"}
Subtype(t1, t2) == t1 = t2 \/ t2 = ConstT("object")

\* solver.z3_types.instance_attributes[cls][attr], classes[cls], type(..)
AttrT(cls, attr) ==
    [k |-> "attr", n |-> 0, args |-> <<ConstT(cls), ConstT(attr)>>]
InstanceT(cls) == [k |-> "class", n |-> 0, args |-> <<ConstT(cls)>>]
TypeT(t) == [k |-> "type", n |-> 0, args |-> <<t>>]
\* solver.z3_types.funcs[len(args_types)]((defaults_len,) + args + (ret,))
FuncT(defaults_len, args_types, return_type) ==
    [k |-> "func", n |-> defaults_len,
     args |-> Append(args_types, return_type)]
\* getattr(type_sort, "func_{}_arg_{}".format(len, i)) applied to t
ArgAccessor(len, i, t) ==
    [k |-> "func_" \o ToString(len) \o "_arg", n |-> i, args |-> <<t>>]
\* getattr(type_sort, "func_{}_return".format(len)) applied to t
ReturnAccessor(len, t) ==
    [k |-> "func_" \o ToString(len) \o "_return", n |-> 0, args |-> <<t>>]

\* a FunctionDef of a class body: params holds the annotation of each
\* parameter ("" when it has none), the last defaults_len of them have a
\* default value; returns is the return annotation ("" when absent)
MethodDef(name, static, params, defaults_len, returns) ==
    [name |-> name, static |-> static, params |-> params,
     defaults_len |-> defaults_len, returns |-> returns]
\* the constructor add_init_if_not_existing gives a class
InitDef == MethodDef("__init__", FALSE, <<"">>, 0, "")
\* the definitions of a method f: static ones annotate every parameter,
\* the others leave the receiver bare
MethodDefs ==
    {MethodDef("f", TRUE, p, d, r) :
        p \in SeqsUpTo(AnnotationTypes, MaxParams), d \in 0..MaxParams,
        r \in AnnotationTypes}
      \cup {MethodDef("f", FALSE, <<>>, 0, r) : r \in AnnotationTypes}
      \cup {MethodDef("f", FALSE, <<"">> \o p, d, r) :
              p \in SeqsUpTo(AnnotationTypes, MaxParams - 1),
              d \in 0..MaxParams, r \in AnnotationTypes}
\* class bodies: the constructor, then at most one definition of f with no
\* more defaults than annotated parameters
ClassBodies ==
    {<<InitDef>>}
      \cup {<<InitDef, m>> : m \in {x \in MethodDefs :
                x.defaults_len <= Len(SelectSeq(x.params,
                                                LAMBDA a : a # ""))}}

\* the method-table entry of a definition: (args length, decorators,
\* defaults length)
MethodEntry(def) ==
    <<Len(def.params),
      IF def.static THEN <<"staticmethod">> ELSE <<>>,
      def.defaults_len>>
IsStatic(entry) == \E i \in DOMAIN entry[2] : entry[2][i] = "staticmethod"

RECURSIVE OwnFuncs(_, _)
OwnFuncs(stmts, acc) ==
    IF stmts = <<>> THEN acc
    ELSE OwnFuncs(Tail(stmts),
                  Put(acc, Head(stmts).name, MethodEntry(Head(stmts))))

\* the methods of the bases a class does not define itself, as
\* propagate_attributes_to_subclasses hands them down: name -> donor
RECURSIVE InheritedFrom(_, _, _, _)
InheritedFrom(bases, funcs, own, acc) ==
    IF bases = <<>> THEN acc
    ELSE LET b == Head(bases)
             bf == Lookup(funcs, b)
             new == SelectSeq(bf, LAMBDA e : ~Has(own, e[1])
                                              /\ ~Has(acc, e[1]))
         IN  InheritedFrom(Tail(bases), funcs, own,
                acc \o [i \in DOMAIN new |-> <<new[i][1], b>>])

\* the names of the true bases of a class definition
DirectBases(bases) ==
    Ids(SelectSeq(bases, LAMBDA x : x.k = "Name" /\ x.id # "object"))

\* config.class_to_funcs and config.inherited_funcs_to_super for the classes
\* listed so far, bases first
RECURSIVE PreAnalysed(_, _, _, _, _)
PreAnalysed(defs, bases, bodies, funcs, inh) ==
    IF defs = <<>> THEN [funcs |-> funcs, inh |-> inh]
    ELSE LET c == Head(defs)
             own == OwnFuncs(bodies[c], <<>>)
             from == InheritedFrom(DirectBases(bases[c]), funcs, own, <<>>)
             all == own \o [i \in DOMAIN from |->
                       <<from[i][1],
                         Lookup(Lookup(funcs, from[i][2]), from[i][1])>>]
         IN  PreAnalysed(Tail(defs), bases, bodies,
                         Put(funcs, c, all), Put(inh, c, from))

(* ------------------------- _infer_func_def ------------------------------ *)
\* _init_func_context: the function's own context and its parameters' types,
\* the annotation's type or a fresh symbol
RECURSIVE InitFuncArgs(_, _, _, _, _)
InitFuncArgs(params, i, fc, st, acc) ==
    IF i > Len(params) THEN [st |-> st, ts |-> acc]
    ELSE LET m == IF params[i] # ""
                  THEN [st |-> st, t |-> ResolveAnnotation(params[i])]
                  ELSE NewZ3Const(st)
         IN  InitFuncArgs(params, i + 1, fc,
                          set_type(m.st, fc, "arg" \o ToString(i), m.t),
                          Append(acc, m.t))

\* _infer_args_defaults: each default value, a literal of its parameter's
\* annotated type, is a subtype of the parameter's type
RECURSIVE _infer_args_defaults(_, _, _, _)
_infer_args_defaults(args_types, defaults_len, i, st) ==
    IF i >= defaults_len THEN st
    ELSE LET arg_idx == i + Len(args_types) - defaults_len
             default_type == args_types[arg_idx + 1]
         IN  _infer_args_defaults(args_types, defaults_len, i + 1,
                AddSoft(SolverAdd(st, Axiom("subtype",
                                     <<default_type, args_types[arg_idx + 1]>>)),
                        Soft("eq", <<default_type, args_types[arg_idx + 1]>>,
                             1)))

\* _infer_func_def for a method that is neither a stub nor generic, in the
\* class context c; the statements of an annotated method's body are left
\* out, the body of the constructor is "pass"
_infer_func_def(def, c, st) ==
    LET s1 == NewContext(st, c)
        a == InitFuncArgs(def.params, 1, Len(s1.ctxs), s1, <<>>)
        result_type == get_type(a.st.ctxs, c, def.name)
        s2 == _infer_args_defaults(a.ts, def.defaults_len, 0, a.st)
        b == NewZ3Const(s2)
    IN  IF def.returns # ""
        THEN LET return_type == ResolveAnnotation(def.returns)
                 s3 == SolverAdd(b.st, Axiom("eq", <<b.t, return_type>>))
             IN  SolverAdd(s3, Axiom("eq",
                    <<result_type,
                      FuncT(def.defaults_len, a.ts, return_type)>>))
        ELSE LET s3 == EndOfBody(SolverAdd(b.st, BodyStmtAxiom(b.t, NoneT)),
                                 b.t, <<NoneT>>)
                 r == NewZ3Const(s3)
                 s4 == AddSoft(SolverAdd(r.st,
                           Axiom("return_none_or_body", <<b.t, r.t>>)),
                           Soft("eq", <<b.t, r.t>>, 2))
             IN  SolverAdd(s4, Axiom("eq",
                    <<result_type, FuncT(def.defaults_len, a.ts, r.t)>>))

(* ------------------------- _infer_class_def ----------------------------- *)
\* Context(node, node.body, ..., is_class=True): the class's context, with a
\* symbol for every function its body defines
RECURSIVE ClassContext(_, _, _)
ClassContext(stmts, c, st) ==
    IF stmts = <<>> THEN st
    ELSE LET m == NewZ3Const(st)
         IN  ClassContext(Tail(stmts), c,
                          set_type(m.st, c, Head(stmts).name, m.t))

\* for stmt in node.body: infer(stmt, class_context, solver), the methods
\* handed down by a base being skipped
RECURSIVE InferClassBody(_, _, _, _)
InferClassBody(stmts, inh, c, st) ==
    IF stmts = <<>> THEN st
    ELSE InferClassBody(Tail(stmts), inh, c,
            IF Head(stmts).name # "__init__" /\ Has(inh, Head(stmts).name)
            THEN st
            ELSE _infer_func_def(Head(stmts), c, st))

\* for i in range(1, base_args_len): parameter i + 1 of the base method is a
\* subtype of parameter i + 1 of the overriding method
RECURSIVE ArgsContravariance(_, _, _, _, _, _)
ArgsContravariance(i, base_args_len, sub_args_len, base_attr, sub_attr, st) ==
    IF i >= base_args_len THEN st
    ELSE ArgsContravariance(i + 1, base_args_len, sub_args_len, base_attr,
            sub_attr,
            SolverAdd(st, Axiom("subtype",
                <<ArgAccessor(base_args_len, i + 1, base_attr),
                  ArgAccessor(sub_args_len, i + 1, sub_attr)>>)))

\* mutant: the comparison of the total argument lengths is the wrong way
\* round
OverrideArityErrorFlipped(base_entry, sub_entry) ==
    \/ base_entry[1] < sub_entry[1]
    \/ base_entry[1] - base_entry[3] < sub_entry[1] - sub_entry[3]

\* the two arity checks on a non-static method overriding a non-static one
OverrideArityError(base_entry, sub_entry) ==
    \/ base_entry[1] > sub_entry[1]
    \/ base_entry[1] - base_entry[3] < sub_entry[1] - sub_entry[3]

\* "staticmethod" in decorators: no variance axiom is emitted
StaticOverride(base_entry, sub_entry) ==
    IsStatic(base_entry) \/ IsStatic(sub_entry)

\* the checks and axioms for attr overriding the method of one base
CheckOverride(cls, base, attr, base_entry, sub_entry, st) ==
    IF StaticOverride(base_entry, sub_entry)
    THEN IF ~IsStatic(base_entry) \/ ~IsStatic(sub_entry)
         THEN Raise(st, "TypeError") ELSE st
    ELSE IF OverrideArityError(base_entry, sub_entry)
         THEN Raise(st, "TypeError")
         ELSE LET s1 == ArgsContravariance(1, base_entry[1], sub_entry[1],
                           AttrT(base, attr), AttrT(cls, attr), st)
                  sub_ret == ReturnAccessor(sub_entry[1], AttrT(cls, attr))
                  base_ret == ReturnAccessor(base_entry[1], AttrT(base, attr))
              IN  AddSoft(SolverAdd(s1, Axiom("subtype", <<sub_ret, base_ret>>)),
                          Soft("eq", <<sub_ret, base_ret>>, 1))

\* for base in base_classes_to_funcs: the overridden methods
RECURSIVE CheckOverrides(_, _, _, _, _, _)
CheckOverrides(cls, bases, attr, funcs, sub_entry, st) ==
    IF bases = <<>> \/ st.err # "none" THEN st
    ELSE LET bf == Lookup(funcs, Head(bases))
         IN  CheckOverrides(cls, Tail(bases), attr, funcs, sub_entry,
                IF attr # "__init__" /\ Has(bf, attr)
                THEN CheckOverride(cls, Head(bases), attr, Lookup(bf, attr),
                                   sub_entry, st)
                ELSE st)

\* one iteration of "for attr in class_attrs"
InferClassAttr(cls, bases, attr, funcs, inh, c, st) ==
    LET cf == Lookup(funcs, cls)
        receiver == attr = "__init__"
                      \/ (Has(cf, attr) /\ ~Has(inh, attr)
                            /\ ~IsStatic(Lookup(cf, attr)))
        s1 == IF receiver
              THEN IF Lookup(cf, attr)[1] = 0 THEN Raise(st, "TypeError")
                   ELSE SolverAdd(st, Axiom("eq",
                           <<ArgAccessor(Lookup(cf, attr)[1], 1,
                                         AttrT(cls, attr)),
                             InstanceT(cls)>>))
              ELSE IF Has(cf, attr) /\ Has(inh, attr)
                   THEN SolverAdd(st, Axiom("eq",
                           <<AttrT(cls, attr),
                             AttrT(Lookup(inh, attr), attr)>>))
                   ELSE st
    IN  IF s1.err # "none" \/ ~Has(s1.ctxs[c].types_map, attr) THEN s1
        ELSE LET s2 == SolverAdd(s1, Axiom("eq",
                          <<AttrT(cls, attr),
                            Lookup(s1.ctxs[c].types_map, attr)>>))
             IN  IF Has(inh, attr) THEN s2
                 ELSE CheckOverrides(cls, bases, attr, funcs,
                                     Lookup(cf, attr), s2)

RECURSIVE InferClassAttrs(_, _, _, _, _, _, _)
InferClassAttrs(cls, bases, attrs, funcs, inh, c, st) ==
    IF attrs = <<>> \/ st.err # "none" THEN st
    ELSE InferClassAttrs(cls, bases, Tail(attrs), funcs, inh, c,
            InferClassAttr(cls, bases, Head(attrs), funcs, inh, c, st))

\* _infer_class_def; class_attrs lists the attributes in the order the
\* solver's instance_attributes table yields them
_infer_class_def(cls, stmts, bases, class_attrs, funcs, inh, st) ==
    LET c == Len(st.ctxs) + 1
        result_type == get_type(st.ctxs, 1, cls)
        s1 == ClassContext(stmts, c, NewContext(st, 1))
        s2 == InferClassBody(stmts, inh, c, s1)
        s3 == InferClassAttrs(cls, bases, class_attrs, funcs, inh, c, s2)
    IN  IF s3.err # "none" THEN s3
        ELSE SolverAdd(s3, Axiom("eq", <<result_type,
                                         TypeT(InstanceT(cls))>>))

\* the classes of the module: B, and C deriving from it
ClassDefClasses == <<"B", "C">>

\* the state after the pre-analysis of a module of two classes: the tables of
\* the configuration, and the module's context with a symbol for each class
InitClassDef ==
    /\ class_defs = ClassDefClasses
    /\ ast_bases \in {[c \in {"B", "C"} |->
                         IF c = "C" THEN <<Name("B")>> ELSE b] :
                      b \in {<<>>, <<Name("object")>>}}
    /\ prog \in [{"B", "C"} -> ClassBodies]
    /\ body = prog
    /\ LET r == PreAnalysed(class_defs, ast_bases, prog, <<>>, <<>>)
       IN  /\ class_to_funcs = r.funcs
           /\ class_inherited_funcs_to_super =
                 [c \in {"B", "C"} |-> Lookup(r.inh, c)]
           /\ class_to_instance_attributes =
                 [i \in DOMAIN r.funcs |-> <<r.funcs[i][1], Keys(r.funcs[i][2])>>]
    /\ ctxs = <<[types_map |-> <<<<"B", Sym(1)>>, <<"C", Sym(2)>>>>,
                 parent_context |-> 0, isinstance_nodes |-> <<>>]>>
    /\ nsym = 2 /\ hard = <<>> /\ soft = <<>> /\ err = "none"
    /\ frames = <<>> /\ steps = 0 /\ last = Stmt("", NoNode, NoNode, NoTest)
    /\ enforce_same_type_in_branches = FALSE
    /\ class_to_bases = <<>> /\ LinIdle
    /\ node_super = {}
    /\ class_to_inherited_funcs = <<>> /\ class_to_inherited_attrs = <<>>
    /\ ppc = "done" /\ pidx = 0
    /\ class_to_base = <<>> /\ class_type_params = <<>> /\ remove_later = {}
    /\ class_to_class_attributes = <<>>
    /\ apc = "done" /\ aidx = 0
    /\ FnIdle /\ ConfIdle /\ RunIdle

\* infer(stmt) for the next ast.ClassDef of the module
InferClassDef ==
    /\ err = "none" /\ steps < Len(class_defs)
    /\ LET cls == class_defs[steps + 1]
       IN  /\ \E class_attrs \in IterationOrders(
                                   Lookup(class_to_instance_attributes, cls)) :
                Commit(_infer_class_def(cls, body[cls],
                          DirectBases(ast_bases[cls]), class_attrs,
                          class_to_funcs, class_inherited_funcs_to_super[cls],
                          Solver))
           /\ last' = Stmt("ClassDef", Name(cls), NoNode, NoTest)
    /\ steps' = steps + 1
    /\ UNCHANGED <<frames, enforce_same_type_in_branches, preVars, extVars>>

NextClassDef == InferClassDef

SpecClassDef == InitClassDef /\ [][NextClassDef]_vars

(* ===================== statement inferrer: C16 blocks ================== *)
\* the body axioms emitted so far for the block whose symbol is bt, in order
BodyAxiomsOf(h, bt) ==
    SelectSeq(h, LAMBDA a : a.ax = "body" /\ a.args[1] = bt)
\* the step just taken ended the block the innermost construct was inferring
IsBlockEnd ==
    /\ frames # <<>> /\ err' = "none"
    /\ \/ Len(frames') < Len(frames)
       \/ /\ Len(frames') = Len(frames)
          /\ TopFrame.phase = "body" /\ frames'[Len(frames')].phase = "else"
\* the step just taken inferred a whole statement of the block bt with type t
StmtOfBlock(fs, bt, t) ==
    /\ BodyAxiomsOf(hard', bt) = Append(BodyAxiomsOf(hard, bt),
                                        BodyStmtAxiom(bt, t))
    /\ hard'[Len(hard')] = BodyStmtAxiom(bt, t)

\* C16: a block's symbol is constrained to the no-value type when the block
\* is empty, and implied to be the no-value type when every statement of the
\* block yields it; a non-empty block has exactly one body axiom per
\* statement, in statement order, each emitted when its statement is done.
C16_BlockTyping ==
    [][/\ IsBlockEnd =>
            LET bt == BlockType(TopFrame)
                ts == TopFrame.stmts_types
            IN  /\ IF ts = <<>>
                   THEN Axiom("eq", <<bt, NoneT>>) \in NewHard
                   ELSE /\ Axiom("all_none_implies_none", <<bt>> \o ts)
                              \in NewHard
                        /\ \A i \in DOMAIN hard' :
                              hard'[i] # Axiom("eq", <<bt, NoneT>>)
                /\ BodyAxiomsOf(hard', bt) =
                      [i \in 1..Len(ts) |-> BodyStmtAxiom(bt, ts[i])]
       /\ (frames # <<>> /\ err' = "none"
             /\ (IsStmt("Assign") \/ IsStmt("Delete"))) =>
            /\ StmtOfBlock(frames, BlockType(TopFrame), NoneT)
            /\ frames'[Len(frames')].stmts_types =
                  Append(TopFrame.stmts_types, NoneT)
       /\ (Len(frames) >= 2 /\ Len(frames') < Len(frames)
             /\ err' = "none") =>
            LET outer == frames[Len(frames) - 1]
                t == hard'[Len(hard')].args[2]
            IN  /\ StmtOfBlock(frames, BlockType(outer), t)
                /\ t.k = "sym" /\ t.n > nsym
                /\ frames'[Len(frames')].stmts_types =
                      Append(outer.stmts_types, t)
      ]_vars

\* an if whose body held a nested construct and an assignment, and whose
\* else block was empty, has been inferred
C16_Witness ==
    /\ last.op = "EndIf" /\ err = "none" /\ frames = <<>>
    /\ \E i \in DOMAIN hard :
          /\ hard[i].ax = "all_none_implies_none"
          /\ Len(hard[i].args) = 3
          /\ hard[i].args[2].k = "sym" /\ hard[i].args[3] = NoneT
          /\ Len(BodyAxiomsOf(hard, hard[i].args[1])) = 2
    /\ hard[Len(hard)].ax # "body"
    /\ \E i \in DOMAIN hard :
          hard[i].ax = "eq" /\ hard[i].args[2] = NoneT


(* ================= statement inferrer: C17 unpacking arity ============= *)
\* the step just taken assigned a tuple display to a tuple or list target
\* with a different number of elements
IsArityMismatch ==
    /\ IsStmt("Assign")
    /\ last'.target.k \in {"Tuple", "List"} /\ last'.value.k = "Tuple"
    /\ Len(last'.target.elts) # Len(last'.value.elts)

\* C17: assigning a literal sequence of n values to a tuple or list target
\* of m # n elements raises a structural error before any constraint for the
\* assignment is emitted.
C17_AsStated ==
    [][IsArityMismatch =>
          /\ err' # "none"
          /\ hard' = hard /\ soft' = soft]_vars


(* ==================== statement inferrer: C18 try ====================== *)
\* the step just taken ended the finally block of a try / a handler's body
IsEndFinalBody ==
    /\ frames # <<>> /\ TopFrame.kind = "Try" /\ TopFrame.phase = "final"
    /\ last'.op = "EndFinalBody"
IsEndHandler ==
    /\ frames # <<>> /\ TopFrame.kind = "Try" /\ TopFrame.phase = "handler"
    /\ last'.op = "EndHandler"
\* the soft constraints relating the two types, in either order
SoftsBetween(sf, t1, t2) ==
    {i \in DOMAIN sf : sf[i].ax = "eq" /\ (sf[i].args = <<t1, t2>>
                                             \/ sf[i].args = <<t2, t1>>)}
\* the result symbol is tied by the try/except axiom to the three blocks
TryAxiomEmitted ==
    IsEndFinalBody =>
        LET f == TopFrame
        IN  /\ f.result_type.k = "sym"
            /\ {f.body_type, f.else_type, f.final_type}
                  \subseteq {Sym(n) : n \in 1..nsym} \ {f.result_type}
            /\ Cardinality({f.body_type, f.else_type, f.final_type}) = 3
            /\ Axiom("try_except", <<f.body_type, f.else_type, f.final_type,
                                     f.result_type>>) \in NewHard
\* the handler body's type is a hard subtype of, never equal to, the result
HandlerSubtype ==
    IsEndHandler =>
        LET f == TopFrame
        IN  /\ Axiom("subtype", <<f.handler_type, f.result_type>>) \in NewHard
            /\ \A i \in DOMAIN hard' :
                  hard'[i].ax = "eq" =>
                     /\ hard'[i].args # <<f.handler_type, f.result_type>>
                     /\ hard'[i].args # <<f.result_type, f.handler_type>>
\* every handler of a finished try contributed its subtype constraint
EveryHandler ==
    (frames # <<>> /\ TopFrame.kind = "Try" /\ Len(frames') < Len(frames)) =>
        LET f == TopFrame
            subs == {i \in DOMAIN hard' :
                        /\ hard'[i].ax = "subtype"
                        /\ hard'[i].args[2] = f.result_type}
        IN  \E n \in 0..MaxHandlers :
              /\ Cardinality(subs) = n
              /\ Cardinality({hard'[i].args[1] : i \in subs}) = n
              /\ n = 0 <=> last'.op = "EndFinalBody"

\* C18 as stated: the try/except axiom ties the result symbol to the body,
\* else and finally types; every handler body's type is a hard subtype of
\* (not equal to) the result type, with a soft preference toward equality of
\* the handler body's type with the result type.
C18_AsStated ==
    [][/\ TryAxiomEmitted
       /\ HandlerSubtype
       /\ EveryHandler
       /\ IsEndHandler =>
            SoftsBetween(soft', TopFrame.handler_type,
                         TopFrame.result_type) # {}]_vars

\* C18 amended: as above, but the soft preferences toward equality are the
\* three emitted with the try/except axiom, between the result type and the
\* body, else and finally types; a handler emits no soft constraint.
C18_TryTyping ==
    [][/\ TryAxiomEmitted
       /\ HandlerSubtype
       /\ EveryHandler
       /\ IsEndFinalBody =>
            LET f == TopFrame
            IN  SubSeq(soft', Len(soft) + 1, Len(soft) + 3) =
                  <<Soft("eq", <<f.result_type, f.body_type>>, 1),
                    Soft("eq", <<f.result_type, f.else_type>>, 1),
                    Soft("eq", <<f.result_type, f.final_type>>, 1)>>
       /\ IsEndHandler =>
            /\ soft' = soft
            /\ SoftsBetween(soft', TopFrame.handler_type,
                            TopFrame.result_type) = {}]_vars

\* a try with two handlers, one of them binding a name, has been inferred
\* with a statement in a handler's body
C18_Witness ==
    /\ last.op = "EndHandler" /\ err = "none" /\ frames = <<>>
    /\ Cardinality({i \in DOMAIN hard : hard[i].ax = "subtype"}) = 2
    /\ Cardinality({i \in DOMAIN hard : hard[i].ax = "try_except"}) = 1
    /\ Len(ctxs) = 2 /\ Has(ctxs[2].types_map, "x")
    /\ \E i \in DOMAIN hard :
          /\ hard[i].ax = "body"
          /\ \E j \in DOMAIN hard :
                hard[j].ax = "subtype" /\ hard[j].args[1] = hard[i].args[1]


(* ================ statement inferrer: C19 override checks ============== *)
\* the step just taken inferred the definition of class C, which defines a
\* method f that its direct base B has too
IsOverrideStep ==
    /\ steps' = steps + 1 /\ last'.op = "ClassDef" /\ last'.target = Name("C")
    /\ Len(body["B"]) = 2 /\ Len(body["C"]) = 2
\* the two definitions of f
BaseMethod == body["B"][2]
SubMethod == body["C"][2]
NonDefaults(m) == Len(m.params) - m.defaults_len
\* the cases in which the override is to be rejected
OverrideRejected ==
    \/ BaseMethod.static # SubMethod.static
    \/ /\ ~BaseMethod.static /\ ~SubMethod.static
       /\ \/ Len(SubMethod.params) < Len(BaseMethod.params)
          \/ NonDefaults(SubMethod) > NonDefaults(BaseMethod)

\* C19: inferring a class definition whose method overrides a same-named
\* non-constructor method of a direct base raises a fatal error when exactly
\* one of the two is static, or (both non-static) when the override has
\* fewer total parameters or more non-default parameters than the base
\* method; in every other case no error is raised.
C19_OverrideChecks ==
    [][IsOverrideStep =>
          IF OverrideRejected
          THEN err' = "TypeError" /\ hard'[Len(hard')].ax # "subtype"
          ELSE err' = "none"]_vars

\* an override taking as many parameters as the base method, but with one
\* default value fewer, has been rejected
C19_Witness ==
    /\ last.op = "ClassDef" /\ last.target = Name("C") /\ steps = 2
    /\ Len(body["B"]) = 2 /\ Len(body["C"]) = 2
    /\ ~BaseMethod.static /\ ~SubMethod.static
    /\ Len(SubMethod.params) = Len(BaseMethod.params)
    /\ NonDefaults(SubMethod) > NonDefaults(BaseMethod)
    /\ err = "TypeError"


(* ================ statement inferrer: C20 override variance ============ *)
\* the function type the constraints h tie the attribute's symbol to
FuncTypesOf(h, attr_type) ==
    {h[j].args[2] : j \in {j \in DOMAIN h :
        /\ h[j].ax = "eq" /\ h[j].args[2].k = "func"
        /\ \E i \in DOMAIN h :
              h[i].ax = "eq" /\ h[i].args = <<attr_type, h[j].args[1]>>}}
\* the values an accessor applied to an attribute's symbol can take
AccessedTypes(h, t) ==
    {IF t.n = 0 THEN f.args[Len(f.args)] ELSE f.args[t.n] :
        f \in {f \in FuncTypesOf(h, t.args[1]) :
                  t.k \in {"func_" \o ToString(Len(f.args) - 1) \o "_arg",
                           "func_" \o ToString(Len(f.args) - 1) \o "_return"}}}
\* the variance constraints among h that the annotated types violate
ViolatedVariance(h) ==
    {i \in DOMAIN h :
        /\ h[i].ax = "subtype" /\ h[i].args[1].args # <<>>
        /\ h[i].args[1].args[1].k = "attr"
        /\ \E t1 \in AccessedTypes(h, h[i].args[1]),
              t2 \in AccessedTypes(h, h[i].args[2]) : ~Subtype(t1, t2)}
\* the parameters the two definitions of f share, the receiver left out
SharedParams ==
    {i \in DOMAIN BaseMethod.params \cap DOMAIN SubMethod.params :
        BaseMethod.params[i] # "" /\ SubMethod.params[i] # ""}
NarrowsParam(i) ==
    /\ SubMethod.params[i] # BaseMethod.params[i]
    /\ Subtype(ConstT(SubMethod.params[i]), ConstT(BaseMethod.params[i]))

\* C20: an override that narrows a parameter type relative to the base
\* method fails with a signature-incompatibility error (raised, or as a
\* variance constraint its types violate), while an override that narrows
\* or keeps the return type and widens or keeps the parameter types raises
\* nothing and violates no constraint. Overrides rejected for their arity or
\* decorators are left aside.
C20_AsStated ==
    [][(IsOverrideStep /\ ~OverrideRejected) =>
          IF \E i \in SharedParams : NarrowsParam(i)
          THEN err' # "none" \/ ViolatedVariance(hard') # {}
          ELSE Subtype(ConstT(SubMethod.returns),
                       ConstT(BaseMethod.returns)) =>
                  err' = "none" /\ ViolatedVariance(hard') = {}]_vars

(* ============== statement inferrer: function definitions =============== *)
\* what a bare `return` hands back: Python's None, not a type
PyNone == ConstT("None")

\* an ast.FunctionDef: pass_body says its body is a lone pass or ellipsis,
\* super is the .super attribute pre-analysis set ("" when it set none),
\* params holds the annotation of each parameter ("" when it has none)
FuncDefNode(name, pass_body, super, params, defaults_len, returns) ==
    [name |-> name, pass_body |-> pass_body, super |-> super,
     params |-> params, defaults_len |-> defaults_len, returns |-> returns]

\* is_annotated(node); in_class: node._parent is an ast.ClassDef
is_annotated(def, in_class) ==
    /\ def.returns # ""
    /\ \A i \in (IF in_class THEN 2 ELSE 1)..Len(def.params) :
          def.params[i] # ""

\* is_stub(node)
is_stub(def, in_class) == is_annotated(def, in_class) /\ def.pass_body

FuncNames == {"f", "h", "__init__"}
FuncDefNodes ==
    {d \in {FuncDefNode(n, pb, sup, <<>>, 0, r) :
              n \in FuncNames, pb \in BOOLEAN, sup \in {"", "A"},
              r \in {"", "int"}} :
        /\ d.pass_body => d.returns # ""
        /\ d.super # "" => d.name # "h"}

\* solver.config.type_params of the session: f is generic in T0, h is not
SessionTypeParams == <<<<"f", <<"T0">>>>>>
\* solver.z3_types.method_ids: the keys of the generic functions and methods
method_ids ==
    <<<<"f", 1>>, <<"B.f", 2>>, <<"f.f", 3>>, <<"h.f", 4>>>>

\* method_key = node.name, prefixed with context.name when there is one
method_key(name, cname) == IF cname # "" THEN cname \o "." \o name ELSE name

TypeVarT(a) == ConstT("tv" \o a)
\* solver.z3_types.generics[len(args) - 1](*args, func_type)
GenericT(args, func_type) ==
    [k |-> "generic", n |-> Len(args), args |-> Append(args, func_type)]
AnnotatedFunction(def) ==
    [k |-> "AnnotatedFunction", n |-> def.defaults_len,
     args |-> [i \in DOMAIN def.params |-> ConstT(def.params[i])]
              \o <<ConstT(def.returns)>>]

\* the name and the Context of the block the traversal is in
ContextName(fs) == IF fs = <<>> THEN "" ELSE fs[Len(fs)].name
FuncContextOf(fs) == IF fs = <<>> THEN 1 ELSE fs[Len(fs)].func_context
InClassBody(fs) == fs # <<>> /\ fs[Len(fs)].kind = "Class"

\* Context(node, body, ...) gives every function of the body a symbol when
\* the context is created; bodies are drawn statement by statement here, so
\* the symbol is minted when the definition is reached
BindFunc(st, c, name) ==
    IF Has(st.ctxs[c].types_map, name) THEN st
    ELSE LET m == NewZ3Const(st) IN set_type(m.st, c, name, m.t)

\* lines 618-625: the type arguments of a generic function
TypeArgs(def, in_ids) ==
    IF in_ids /\ Has(SessionTypeParams, def.name)
    THEN LET a == Lookup(SessionTypeParams, def.name)
         IN  [i \in DOMAIN a |-> TypeVarT(a[i])]
    ELSE <<>>

\* mutant: the marker is left at the callee's identifier
RestoreMethodSkipped(in_ids, old_method, cm) == cm

\* lines 638-639 and 711-712: if method_key in method_ids:
\*     current_method = old_method
RestoreMethod(in_ids, old_method, cm) == IF in_ids THEN old_method ELSE cm

\* lines 650-709: the return type, the function type and the equation that
\* defines the function's symbol, once the body has type body_type
FuncDefExit(def, result_type, args_types, in_ids, body_type, st) ==
    LET r == IF def.returns # ""
             THEN [st |-> SolverAdd(st, Axiom("eq",
                             <<body_type, ResolveAnnotation(def.returns)>>)),
                   t |-> ResolveAnnotation(def.returns)]
             ELSE LET m == NewZ3Const(st)
                  IN  [st |-> AddSoft(SolverAdd(m.st,
                                 Axiom("return_none_or_body",
                                       <<body_type, m.t>>)),
                                 Soft("eq", <<body_type, m.t>>, 2)),
                       t |-> m.t]
        func_type == FuncT(def.defaults_len, args_types, r.t)
    IN  IF in_ids
        THEN SolverAdd(r.st, Axiom("eq",
                <<result_type, GenericT(TypeArgs(def, in_ids), func_type)>>))
        ELSE SolverAdd(r.st, Axiom("eq", <<result_type, func_type>>))

\* _infer_func_def(node, context, solver) up to the inference of the body,
\* with fs the blocks in progress and cm the marker at the call; t is the
\* value returned when the call ends before any body is inferred, frame the
\* call's frame when a body is to be inferred (ignore_fully_annotated_function
\* off, no option generics, no abstract methods)
FuncDefCall(def, fs, cm, st) ==
    LET c == FuncContextOf(fs)
        in_class == InClassBody(fs)
        key == method_key(def.name, ContextName(fs))
        in_ids == Has(method_ids, key)
        old_method == cm
        cm1 == IF in_ids THEN Lookup(method_ids, key) ELSE cm
        s0 == BindFunc(st, c, def.name)
        s1 == NewContext(s0, c)
        func_context == Len(s1.ctxs)
        a == InitFuncArgs(def.params, 1, func_context, s1, <<>>)
        result_type == get_type(a.st.ctxs, c, def.name)
        copy == def.super # "" /\ def.super # ContextName(fs)
        s2 == _infer_args_defaults(a.ts, def.defaults_len, 0, a.st)
        b == NewZ3Const(s2)
    IN  IF is_annotated(def, in_class) /\ is_stub(def, in_class)
        THEN [st |-> set_type(st, c, def.name, AnnotatedFunction(def)),
              cm |-> cm, t |-> NoneT, frame |-> <<>>]
        ELSE IF copy /\ def.name # "__init__"
        THEN [st |-> a.st, cm |-> RestoreMethod(in_ids, old_method, cm1),
              t |-> PyNone, frame |-> <<>>]
        ELSE IF copy /\ def.returns = ""
        THEN [st |-> FuncDefExit(def, result_type, a.ts, in_ids, NoneT, s2),
              cm |-> RestoreMethod(in_ids, old_method, cm1),
              t |-> NoneT, frame |-> <<>>]
        ELSE [st |-> b.st, cm |-> cm1, t |-> NoRet,
              frame |-> <<[kind |-> "Func", name |-> def.name, def |-> def,
                           func_context |-> func_context,
                           result_type |-> result_type,
                           args_types |-> a.ts, in_ids |-> in_ids,
                           old_method |-> IF in_ids THEN old_method ELSE 0,
                           entry_method |-> cm,
                           body_type |-> b.t, stmts_types |-> <<>>]>>]

\* the loop of _infer_class_def over the body of class cls is in progress
ClassFrame(cls, class_context) ==
    [kind |-> "Class", name |-> cls,
     def |-> FuncDefNode("", FALSE, "", <<>>, 0, ""),
     func_context |-> class_context, result_type |-> NoneT,
     args_types |-> <<>>, in_ids |-> FALSE, old_method |-> 0,
     entry_method |-> 0, body_type |-> NoneT, stmts_types |-> <<>>]

\* _infer_body of the enclosing function, after infer(stmt) returned
\* stmt_type; the loop over a class body keeps no statement types
BodyStmtDone(st, fs, stmt_type) ==
    IF fs = <<>> \/ fs[Len(fs)].kind = "Class" THEN st
    ELSE SolverAdd(st, BodyStmtAxiom(fs[Len(fs)].body_type, stmt_type))
BodyRecordStmt(fs, stmt_type) ==
    IF fs = <<>> \/ fs[Len(fs)].kind = "Class" THEN fs
    ELSE [fs EXCEPT ![Len(fs)].stmts_types = Append(@, stmt_type)]

FuncDepth(fs) == Len(SelectSeq(fs, LAMBDA f : f.kind = "Func"))

\* the module's context, or the module's context and the context of a
\* class B whose body is being inferred
InitFuncDef ==
    /\ \/ /\ ctxs = <<[types_map |-> <<>>, parent_context |-> 0,
                        isinstance_nodes |-> <<>>]>>
          /\ nsym = 0
          /\ fstack = <<>>
       \/ /\ ctxs = <<[types_map |-> <<<<"B", Sym(1)>>>>,
                        parent_context |-> 0, isinstance_nodes |-> <<>>],
                       [types_map |-> <<>>, parent_context |-> 1,
                        isinstance_nodes |-> <<>>]>>
          /\ nsym = 1
          /\ fstack = <<ClassFrame("B", 2)>>
    /\ hard = <<>> /\ soft = <<>> /\ err = "none"
    /\ frames = <<>> /\ steps = 0 /\ last = Stmt("", NoNode, NoNode, NoTest)
    /\ enforce_same_type_in_branches = FALSE
    /\ current_method = 0 /\ ret = NoRet /\ SessIdle
    /\ class_to_bases = <<>> /\ LinIdle /\ PropIdle
    /\ ClsIdle /\ FnIdle /\ ConfIdle

\* infer(stmt) for an ast.FunctionDef: the whole call when it ends before a
\* body is inferred, otherwise the call up to the start of the body
InferFuncDef ==
    \E def \in FuncDefNodes :
        /\ err = "none" /\ steps < MaxStmts
        /\ (def.super # "" \/ def.name = "__init__") => InClassBody(fstack)
        /\ LET r == FuncDefCall(def, fstack, current_method, Solver)
           IN  /\ r.frame # <<>> => FuncDepth(fstack) < MaxDepth
               /\ current_method' = r.cm
               /\ IF r.frame # <<>>
                  THEN /\ Commit(r.st)
                       /\ fstack' = fstack \o r.frame
                       /\ ret' = ret
                  ELSE /\ Commit(IF r.t = PyNone THEN r.st
                                 ELSE BodyStmtDone(r.st, fstack, r.t))
                       /\ fstack' = BodyRecordStmt(fstack, r.t)
                       /\ ret' = r.t
        /\ steps' = steps + 1
        /\ last' = Stmt("FunctionDef", Name(def.name), NoNode, NoTest)
        /\ UNCHANGED <<frames, enforce_same_type_in_branches, preVars,
                       clsVars, fnVars, confVars, sessVars>>

\* the body of the innermost function definition ends: _infer_body's closing
\* axiom, then lines 650-713
EndFuncDef ==
    /\ err = "none" /\ fstack # <<>>
    /\ fstack[Len(fstack)].kind = "Func"
    /\ LET f == fstack[Len(fstack)]
           outer == SubSeq(fstack, 1, Len(fstack) - 1)
           s1 == EndOfBody(Solver, f.body_type, f.stmts_types)
           s2 == FuncDefExit(f.def, f.result_type, f.args_types, f.in_ids,
                             f.body_type, s1)
       IN  /\ Commit(BodyStmtDone(s2, outer, NoneT))
           /\ fstack' = BodyRecordStmt(outer, NoneT)
           /\ current_method' =
                 RestoreMethod(f.in_ids, f.old_method, current_method)
           /\ ret' = NoneT
           /\ last' = Stmt("EndFunctionDef", Name(f.name), NoNode, NoTest)
    /\ UNCHANGED <<frames, steps, enforce_same_type_in_branches, preVars,
                   clsVars, fnVars, confVars, sessVars>>

\* infer(stmt) for an ast.Expr, for an ast.Return and for a node of a kind
\* infer has no branch for (ast.Pass): the value of an expression statement
\* is inferred and dropped, a return without a value has the no-value type
PlainStmts ==
    {Stmt("Expr", NoNode, Constant("int"), NoTest),
     Stmt("Return", NoNode, Constant("int"), NoTest),
     Stmt("Return", NoNode, NoNode, NoTest),
     Stmt("Pass", NoNode, NoNode, NoTest)}
InferPlain ==
    \E stmt \in PlainStmts :
        /\ err = "none" /\ steps < MaxStmts
        /\ stmt.op = "Return" => fstack # <<>> /\ ~InClassBody(fstack)
        /\ LET t == IF stmt.op = "Return" /\ stmt.value # NoNode
                    THEN ExprInferLiteral(stmt.value)
                    ELSE NoneT
           IN  /\ Commit(BodyStmtDone(Solver, fstack, t))
               /\ fstack' = BodyRecordStmt(fstack, t)
               /\ ret' = t
        /\ steps' = steps + 1
        /\ last' = stmt
        /\ UNCHANGED <<frames, current_method,
                       enforce_same_type_in_branches, preVars,
                       clsVars, fnVars, confVars, sessVars>>

NextFuncDef == InferFuncDef \/ EndFuncDef \/ InferPlain

SpecFuncDef == InitFuncDef /\ [][NextFuncDef]_vars

\* C21: infer returns a type symbol for every statement node it is given,
\* never an absent value, including for a function definition that is an
\* inherited copy of a superclass method
C21_AsStated == ret # PyNone

\* C29: whenever _infer_func_def returns normally, on any of its paths, the
\* solver's current-method marker equals the value it had when the call
\* started
IsFuncDefReturn ==
    \/ last'.op = "EndFunctionDef" /\ Len(fstack') < Len(fstack)
    \/ /\ last'.op = "FunctionDef" /\ steps' = steps + 1
       /\ Len(fstack') = Len(fstack)
\* the marker when the call that returns in this step started
MarkerAtCall ==
    IF Len(fstack') < Len(fstack)
    THEN fstack[Len(fstack)].entry_method
    ELSE current_method
C29_MarkerRestored ==
    [][IsFuncDefReturn => current_method' = MarkerAtCall]_vars
\* a generic function defined inside a generic function has returned: the
\* marker is back at the outer function's identifier
C29_Witness ==
    /\ last.op = "EndFunctionDef" /\ fstack # <<>>
    /\ fstack[Len(fstack)].in_ids /\ current_method = 1
    /\ last.target = Name("f") /\ fstack[Len(fstack)].name = "f"

(* ========================= run_inference =============================== *)
\* solver.assertions_vars: one tag per constraint given to solver.add, in
\* order; solver.assertions_errors[av]: the fail message given with it
assertions_vars(h) == DOMAIN h
assertions_errors(h, av) == <<h[av].ax, av>>

\* mutant: the assertions the relaxed model satisfies are reported
UnsatReportSatisfied(h, sat) ==
    LET F[i \in 0..Len(h)] ==
            IF i = 0 THEN <<>>
            ELSE IF i \in sat
                 THEN F[i - 1] \o <<"Unsat:", assertions_errors(h, i)>>
                 ELSE F[i - 1]
    IN  F[Len(h)]

\* lines 124-127 and 145-148: for av in solver.assertions_vars:
\*     if not model[av]: print("Unsat:"); print(assertions_errors[av])
UnsatReport(h, sat) ==
    LET F[i \in 0..Len(h)] ==
            IF i = 0 THEN <<>>
            ELSE IF i \notin sat
                 THEN F[i - 1] \o <<"Unsat:", assertions_errors(h, i)>>
                 ELSE F[i - 1]
    IN  F[Len(h)]

\* the solver is an opaque engine: what check() answers, the core it names
\* and the tags its relaxed model satisfies are its choice; an unsatisfiable
\* set has a non-empty core, and a model of the relaxed problem falsifies at
\* least one tag of the core
CheckResults(h) == IF h = <<>> THEN {"sat"} ELSE {"sat", "unsat"}
UnsatCores(h) == SUBSET (DOMAIN h) \ {{}}
RelaxedModels(h, c) == {m \in SUBSET (DOMAIN h) : c \ m # {}}

\* run_inference after configure_inference and the construction of the
\* solver and of the module's context
InitRun ==
    /\ ctxs = <<[types_map |-> <<>>, parent_context |-> 0,
                 isinstance_nodes |-> <<>>]>>
    /\ nsym = 0 /\ hard = <<>> /\ soft = <<>> /\ err = "none"
    /\ frames = <<>> /\ steps = 0 /\ last = Stmt("", NoNode, NoNode, NoTest)
    /\ enforce_same_type_in_branches = FALSE
    /\ class_to_bases = <<>> /\ LinIdle /\ PropIdle
    /\ ClsIdle /\ FnIdle /\ ConfIdle
    /\ current_method = 0 /\ fstack = <<>> /\ ret = NoRet
    /\ CfgIdle /\ WalkIdle
    /\ rpc = "generate" /\ check = "" /\ log = NoFile /\ core = NoCore
    /\ model = NoModel /\ printed = <<>> /\ written = FALSE
    /\ print_unsat_core \in BOOLEAN
    /\ enable_soft_constraints \in BOOLEAN

\* lines 69-70: infer(stmt, context, solver) for the next statement of the
\* module, an assignment to a name
GenerateStmt ==
    /\ rpc = "generate"
    /\ InferAssign
    /\ last'.target.k = "Name"

\* lines 72-81: the statements are done; solver.push() and the check
SolverCheck ==
    /\ rpc = "generate" /\ err = "none"
    /\ \E c \in CheckResults(hard) : check' = c
    /\ rpc' = "checked"
    /\ last' = Stmt("check", NoNode, NoNode, NoTest)
    /\ UNCHANGED <<ctxs, nsym, hard, soft, err, frames, steps,
                   enforce_same_type_in_branches, preVars, clsVars, fnVars,
                   confVars, runVars, log, core, model, printed, written,
                   print_unsat_core, enable_soft_constraints, cfgVars,
                   walkVars>>

\* lines 83-93: file.write(print_solver(solver))
WriteLog ==
    /\ rpc = "checked"
    /\ log' = [written |-> TRUE, hard |-> hard, soft |-> soft]
    /\ rpc' = "logged"
    /\ last' = Stmt("log", NoNode, NoNode, NoTest)
    /\ UNCHANGED <<ctxs, nsym, hard, soft, err, frames, steps,
                   enforce_same_type_in_branches, preVars, clsVars, fnVars,
                   confVars, runVars, check, core, model, printed, written,
                   print_unsat_core, enable_soft_constraints, cfgVars,
                   walkVars>>

\* lines 95-153: the check result is acted on. unsat: the core file when
\* print_unsat_core is set, then in both cases an Optimize with every tag
\* soft and every assertion hard, its model, and the report of the tags the
\* model falsifies; otherwise the model of the check
ActOnCheck ==
    /\ rpc = "logged"
    /\ IF check = "unsat"
       THEN \E c \in UnsatCores(hard) : \E m \in RelaxedModels(hard, c) :
               /\ core' = IF print_unsat_core
                          THEN [written |-> TRUE,
                                msgs |-> {assertions_errors(hard, av) :
                                             av \in c}]
                          ELSE core
               /\ model' = [some |-> TRUE,
                            soft_vars |-> assertions_vars(hard), sat |-> m]
               /\ printed' = UnsatReport(hard, m)
       ELSE /\ model' = [some |-> TRUE, soft_vars |-> {},
                         sat |-> assertions_vars(hard)]
            /\ UNCHANGED <<core, printed>>
    /\ rpc' = "model"
    /\ last' = Stmt("act", NoNode, NoNode, NoTest)
    /\ UNCHANGED <<ctxs, nsym, hard, soft, err, frames, steps,
                   enforce_same_type_in_branches, preVars, clsVars, fnVars,
                   confVars, runVars, check, log, written,
                   print_unsat_core, enable_soft_constraints, cfgVars,
                   walkVars>>

\* lines 155-170: if model is not None: the typed program is written
WriteOutput ==
    /\ rpc = "model"
    /\ written' = model.some
    /\ rpc' = "done"
    /\ last' = Stmt("output", NoNode, NoNode, NoTest)
    /\ UNCHANGED <<ctxs, nsym, hard, soft, err, frames, steps,
                   enforce_same_type_in_branches, preVars, clsVars, fnVars,
                   confVars, runVars, check, log, core, model, printed,
                   print_unsat_core, enable_soft_constraints, cfgVars,
                   walkVars>>

NextRun ==
    GenerateStmt \/ SolverCheck \/ WriteLog \/ ActOnCheck \/ WriteOutput

SpecRun == InitRun /\ [][NextRun]_vars

\* C22: once constraint generation has completed, an UNSAT check result never
\* aborts the run: whether or not print_unsat_core is set, a relaxed model is
\* computed with every tagged assertion treated as a soft constraint and the
\* fail message of each assertion the relaxed model leaves unsatisfied is
\* reported; the constraint log is written before the check result is acted
\* on
ReportedMessages ==
    {printed[i] : i \in {j \in DOMAIN printed : j % 2 = 0}}
UnsatisfiedMessages ==
    {<<hard[av].ax, av>> : av \in (DOMAIN hard) \ model.sat}
C22_UnsatHandled ==
    /\ rpc \in {"checked", "logged", "model"} => err = "none"
    /\ rpc = "logged" => ENABLED ActOnCheck
    /\ rpc = "model" => ENABLED WriteOutput
    /\ rpc \in {"model", "done"} =>
          /\ log = [written |-> TRUE, hard |-> hard, soft |-> soft]
          /\ check = "unsat" =>
                /\ model.some
                /\ model.soft_vars = assertions_vars(hard)
                /\ ReportedMessages = UnsatisfiedMessages
                /\ Len(printed) = 2 * Cardinality(UnsatisfiedMessages)
                /\ model.sat # DOMAIN hard
    /\ rpc = "done" => written
C22_Witness ==
    /\ rpc = "done" /\ check = "unsat" /\ ~print_unsat_core
    /\ Len(hard) >= 2 /\ Len(printed) = 2 /\ written

(* ======================= configure_inference =========================== *)
\* a flag value is a string, here the sequence of its characters
TrueStr == <<"T", "r", "u", "e">>
FalseStr == <<"F", "a", "l", "s", "e">>
\* the flag is not among vars(args)
Absent == <<"-">>
Digits == <<"0", "1", "2", "3", "4", "5", "6", "7", "8", "9">>

\* str.split(","): the pieces between the commas
RECURSIVE Split(_, _, _)
Split(cs, cur, acc) ==
    IF cs = <<>> THEN Append(acc, cur)
    ELSE IF Head(cs) = "," THEN Split(Tail(cs), <<>>, Append(acc, cur))
    ELSE Split(Tail(cs), Append(cur, Head(cs)), acc)

\* the string a sequence of characters spells
RECURSIVE Spell(_)
Spell(cs) == IF cs = <<>> THEN "" ELSE Head(cs) \o Spell(Tail(cs))

\* int(token): the number a decimal numeral denotes, -1 for ValueError
IsNumeral(tok) ==
    tok # <<>> /\ \A i \in DOMAIN tok : \E d \in DOMAIN Digits : Digits[d] = tok[i]
RECURSIVE IntOf(_, _)
IntOf(tok, acc) ==
    IF tok = <<>> THEN acc
    ELSE IntOf(Tail(tok),
               10 * acc + (CHOOSE d \in DOMAIN Digits : Digits[d] = Head(tok)) - 1)

\* ["{}{}".format(name, i) for i in range(count)]
GeneratedNames(name, count) == [i \in 1..count |-> name \o ToString(i - 1)]

\* lines 24-29 (and 34-39): the pairs name, count of the split flag value are
\* entered in the mapping; a missing or malformed count raises
RECURSIVE ParseTypeParams(_, _, _)
ParseTypeParams(toks, i, m) ==
    IF i > Len(toks) THEN [err |-> "none", map |-> m]
    ELSE IF i + 1 > Len(toks) THEN [err |-> "IndexError", map |-> m]
    ELSE IF ~IsNumeral(toks[i + 1]) THEN [err |-> "ValueError", map |-> m]
    ELSE ParseTypeParams(toks, i + 2,
            Put(m, Spell(toks[i]),
                GeneratedNames(Spell(toks[i]), IntOf(toks[i + 1], 0))))

\* lines 21-29 (and 31-39): the branch of one type-parameter flag, local
\* being the value of the local variable before it
TypeParamsFlag(local, flag_value) ==
    IF local.none \/ flag_value = <<>>
    THEN [err |-> "none", val |-> Mapping(<<>>)]
    ELSE LET r == ParseTypeParams(Split(flag_value, <<>>, <<>>), 1, local.map)
         IN  [err |-> r.err, val |-> Mapping(r.map)]

\* the values a type-parameter flag is given on the command line
FlagValues ==
    {<<>>, <<"f", ",", "1">>, <<"f", ",", "1", ",", "g", ",", "2">>,
     <<"g", ",", "0">>, <<"f", ",", "1", "0">>, <<"f">>,
     <<"f", ",", "g">>}
\* the flags that config.config has a key for
ConfigFlags == {"print_unsat_core", "enable_soft_constraints"}
\* vars(args): each flag once, in the order the parser declares them
ArgLists ==
    {SelectSeq(<<<<"func_type_params", f>>, <<"class_type_params", c>>,
                 <<"print_unsat_core", p>>, <<"verbose", v>>>>,
               LAMBDA a : a[2] # Absent) :
        f \in FlagValues \cup {Absent}, c \in FlagValues \cup {Absent},
        p \in {Absent, TrueStr, FalseStr}, v \in {Absent, <<"1">>}}

InitConfigure ==
    /\ ctxs = <<[types_map |-> <<>>, parent_context |-> 0,
                 isinstance_nodes |-> <<>>]>>
    /\ nsym = 0 /\ hard = <<>> /\ soft = <<>> /\ err = "none"
    /\ frames = <<>> /\ steps = 0 /\ last = Stmt("", NoNode, NoNode, NoTest)
    /\ enforce_same_type_in_branches = FALSE
    /\ class_to_bases = <<>> /\ LinIdle /\ PropIdle
    /\ ClsIdle /\ FnIdle /\ ConfIdle
    /\ current_method = 0 /\ fstack = <<>> /\ ret = NoRet
    /\ rpc = "configure" /\ check = "" /\ log = NoFile /\ core = NoCore
    /\ model = NoModel /\ printed = <<>> /\ written = FALSE
    /\ print_unsat_core = FALSE /\ enable_soft_constraints = FALSE
    /\ cfg_args \in ArgLists
    /\ func_type_params = PyNoneMap /\ cfg_class_type_params = PyNoneMap
    /\ WalkIdle

\* one iteration of `for flag_name in vars(args)`; steps counts the flags
\* visited
ConfigureFlag ==
    /\ rpc = "configure" /\ err = "none" /\ steps < Len(cfg_args)
    /\ LET flag_name == cfg_args[steps + 1][1]
           flag_value == cfg_args[steps + 1][2]
           f == TypeParamsFlag(func_type_params, flag_value)
           c == TypeParamsFlag(cfg_class_type_params, flag_value)
       IN  /\ func_type_params' =
                 IF flag_name = "func_type_params" THEN f.val
                 ELSE func_type_params
           /\ cfg_class_type_params' =
                 IF flag_name = "class_type_params" THEN c.val
                 ELSE cfg_class_type_params
           /\ err' = CASE flag_name = "func_type_params" -> f.err
                       [] flag_name = "class_type_params" -> c.err
                       [] OTHER -> err
           /\ print_unsat_core' =
                 IF flag_name = "print_unsat_core" THEN flag_value = TrueStr
                 ELSE print_unsat_core
           /\ enable_soft_constraints' =
                 IF flag_name = "enable_soft_constraints"
                 THEN flag_value = TrueStr
                 ELSE enable_soft_constraints
           /\ printed' =
                 IF flag_name \notin {"func_type_params", "class_type_params"}
                                        \cup ConfigFlags
                 THEN Append(printed, "Invalid flag " \o flag_name
                                        \o ". Ignoring.")
                 ELSE printed
    /\ steps' = steps + 1
    /\ UNCHANGED <<ctxs, nsym, hard, soft, frames, last,
                   enforce_same_type_in_branches, preVars, clsVars, fnVars,
                   confVars, runVars, rpc, check, log, core, model, written,
                   cfg_args, walkVars>>

\* line 44: return class_type_params, func_type_params
ConfigureReturn ==
    /\ rpc = "configure" /\ err = "none" /\ steps = Len(cfg_args)
    /\ rpc' = "configured"
    /\ UNCHANGED <<stmtVars, preVars, clsVars, fnVars, confVars, runVars,
                   check, log, core, model, printed, written,
                   print_unsat_core, enable_soft_constraints, cfgVars,
                   walkVars>>

NextConfigure == ConfigureFlag \/ ConfigureReturn

SpecConfigure == InitConfigure /\ [][NextConfigure]_vars

\* the value flag name has in vars(args), Absent when it is not there
FlagValueOf(name) ==
    IF \E i \in DOMAIN cfg_args : cfg_args[i][1] = name
    THEN cfg_args[CHOOSE i \in DOMAIN cfg_args : cfg_args[i][1] = name][2]
    ELSE Absent
ClaimedMapping(value) ==
    IF value = <<"f", ",", "1", ",", "g", ",", "2">>
    THEN Mapping(<<<<"f", <<"f0">>>>, <<"g", <<"g0", "g1">>>>>>)
    ELSE Mapping(<<>>)

\* C25: configure_inference, given a func_type_params flag value of the form
\* 'f,1,g,2', returns the mapping f -> [f0], g -> [g0, g1], and likewise for
\* class_type_params; an empty flag value returns an empty mapping
C25_AsStated ==
    rpc = "configured" =>
        /\ FlagValueOf("func_type_params")
              \in {<<>>, <<"f", ",", "1", ",", "g", ",", "2">>} =>
                 func_type_params =
                    ClaimedMapping(FlagValueOf("func_type_params"))
        /\ FlagValueOf("class_type_params")
              \in {<<>>, <<"f", ",", "1", ",", "g", ",", "2">>} =>
                 cfg_class_type_params =
                    ClaimedMapping(FlagValueOf("class_type_params"))

(* ============ linearization: the recursion and the list objects ========= *)
\* deepest nesting of calls the interpreter allows before RecursionError
MaxRecursion == 4

\* any base-class mapping over three classes: a class may name any class as
\* a base, itself and its own subclasses included
RecClasses == {"A", "B", "C"}
RecMappings == [RecClasses -> DistinctSeqs(RecClasses, MaxBases)]

\* a list object that merge works on: items, and alias, the class whose
\* entry of class_to_bases is this very object ("" when it is no entry)
ListObj(alias, items) == [alias |-> alias, items |-> items]

\* mutant: the bases are handed to merge without a copy
CopyBasesShared(cls, bases) == ListObj(cls, bases)

\* copy(bases): a new list with the same items
CopyBases(cls, bases) == ListObj("", bases)

\* one iteration of merge's loop on list objects: the items change as in
\* MergeIteration, the objects stay the same
MergeObjects(ls, out) ==
    LET ne == SelectSeq(ls, LAMBDA l : l.items # <<>>)
        r == MergeIteration([j \in DOMAIN ne |-> ne[j].items], out)
    IN  [status |-> r.status, res |-> r.res,
         lists |-> [j \in DOMAIN ne |-> ListObj(ne[j].alias, r.lists[j])]]

\* the mapping after the list objects ls were changed in place
WriteThrough(ctb, ls) ==
    [c \in DOMAIN ctb |->
        IF \E j \in DOMAIN ls : ls[j].alias = c
        THEN ls[CHOOSE j \in DOMAIN ls : ls[j].alias = c].items
        ELSE ctb[c]]

LinFrame(cls, bases) ==
    [cls |-> cls, bases |-> bases, i |-> 1, lins |-> <<>>, pc |-> "bases",
     lists |-> <<>>, res |-> <<>>]

InitLinRec ==
    /\ class_to_bases \in RecMappings
    /\ LinIdle /\ PropIdle /\ StmtIdle /\ ExtIdle

\* get_linearization(cls, class_to_bases) is called from outside
LinRecCall ==
    \E cls \in DOMAIN class_to_bases :
        /\ lpc \in {"idle", "returned", "raised"}
        /\ lstack' = <<LinFrame(cls, class_to_bases[cls])>>
        /\ lpc' = "running"
        /\ lin_cls' = cls /\ lin' = <<>> /\ err' = "none"
        /\ UNCHANGED <<class_to_bases, lists, res, propVars, ctxs, nsym,
                       hard, soft, frames, steps, last,
                       enforce_same_type_in_branches, extVars>>

\* the list comprehension calls get_linearization for the next base; the
\* interpreter raises RecursionError when the calls nest too deep
LinRecDescend ==
    /\ lpc = "running"
    /\ LET f == lstack[Len(lstack)]
       IN  /\ f.pc = "bases" /\ f.i <= Len(f.bases)
           /\ IF Len(lstack) >= MaxRecursion
              THEN /\ lstack' = <<>> /\ lpc' = "raised"
                   /\ err' = "RecursionError"
              ELSE /\ lstack' = Append(lstack,
                          LinFrame(f.bases[f.i], class_to_bases[f.bases[f.i]]))
                   /\ UNCHANGED <<lpc, err>>
    /\ UNCHANGED <<class_to_bases, lists, res, lin_cls, lin, propVars, ctxs,
                   nsym, hard, soft, frames, steps, last,
                   enforce_same_type_in_branches, extVars>>

\* the bases are linearized: merge is entered with their linearizations
\* and a copy of the bases
LinRecMergeEnter ==
    /\ lpc = "running"
    /\ LET f == lstack[Len(lstack)]
       IN  /\ f.pc = "bases" /\ f.i > Len(f.bases)
           /\ lstack' = [lstack EXCEPT ![Len(lstack)] =
                 [f EXCEPT !.pc = "merge",
                           !.lists = Append(
                               [j \in DOMAIN f.lins |-> ListObj("", f.lins[j])],
                               CopyBases(f.cls, f.bases))]]
    /\ UNCHANGED <<class_to_bases, lists, res, lin_cls, lin, lpc, propVars,
                   stmtVars, extVars>>

\* one iteration of the loop of the innermost merge: a head is removed, or
\* TypeError is raised, or merge returns and with it get_linearization
LinRecMergeStep ==
    /\ lpc = "running"
    /\ LET f == lstack[Len(lstack)]
           r == MergeObjects(f.lists, f.res)
           outer == SubSeq(lstack, 1, Len(lstack) - 1)
           result == <<f.cls>> \o r.res
       IN  /\ f.pc = "merge"
           /\ class_to_bases' = WriteThrough(class_to_bases, r.lists)
           /\ CASE r.status = "raise" ->
                     /\ lstack' = <<>> /\ lpc' = "raised"
                     /\ err' = "TypeError" /\ lin' = lin
                [] r.status = "done" /\ outer = <<>> ->
                     /\ lstack' = <<>> /\ lpc' = "returned"
                     /\ lin' = result /\ err' = err
                [] r.status = "done" /\ outer # <<>> ->
                     /\ lstack' = [outer EXCEPT ![Len(outer)] =
                           [@ EXCEPT !.lins = Append(@, result),
                                     !.i = @ + 1]]
                     /\ UNCHANGED <<lpc, lin, err>>
                [] OTHER ->
                     /\ lstack' = [lstack EXCEPT ![Len(lstack)] =
                           [f EXCEPT !.lists = r.lists, !.res = r.res]]
                     /\ UNCHANGED <<lpc, lin, err>>
    /\ UNCHANGED <<lists, res, lin_cls, propVars, ctxs, nsym, hard, soft,
                   frames, steps, last, enforce_same_type_in_branches,
                   extVars>>

NextLinRec ==
    LinRecCall \/ LinRecDescend \/ LinRecMergeEnter \/ LinRecMergeStep

SpecLinRec == InitLinRec /\ [][NextLinRec]_vars

\* C26: get_linearization and merge leave the base-class mapping passed to
\* them unchanged: after any sequence of linearization calls, whether they
\* return or raise, every class's declared-base list in the mapping is the
\* same as before the calls
C26_MappingUnchanged == [][class_to_bases' = class_to_bases]_vars
\* a call has returned after its merge emptied the copy of two bases
C26_Witness ==
    /\ lpc = "returned" /\ Len(lin) = 3
    /\ Len(class_to_bases[lin_cls]) = 2

\* C27: for every finite base-class mapping, get_linearization terminates,
\* either returning a linearization or raising the inconsistent-hierarchy
\* error; a mapping that contains an inheritance cycle also ends in that
\* error rather than in unbounded recursion
C27_AsStated ==
    /\ Len(lstack) <= Cardinality(DOMAIN class_to_bases)
    /\ lpc = "raised" => err = "TypeError"

(* ========================== PreAnalyzer.walk =========================== *)
\* most import statements of a module
MaxImports == 2

\* the program's modules; main is the module given to the PreAnalyzer
WalkModules == {"main", "m"}
\* an import statement with one name: import m / from m import x
ImportStmts ==
    {<<k, m>> : k \in {"import", "from"}, m \in WalkModules}
        \cup {<<"from", "typing">>}
WalkPrograms == [WalkModules -> SeqsUpTo(ImportStmts, MaxImports)]
\* the interpreter's recursion limit: deeper than any nesting in which every
\* import node of the program is entered once
WalkRecursionLimit == Cardinality(WalkModules) * MaxImports + MaxRecursion

\* an AST object: the module it was parsed from and, when the handler parses
\* anew at each request, the number of the request
AstObj(module, n) == <<module, n>>
\* ImportHandler.get_module_ast(name, base_folder)
get_module_ast(module, cached, n) ==
    IF cached THEN AstObj(module, 0) ELSE AstObj(module, n)

\* the positions of the import nodes of kind k among the module's statements
NodesOf(stmts, k) ==
    SelectSeq([i \in DOMAIN stmts |-> i], LAMBDA i : stmts[i][1] = k)

WalkFrame(tree, import_nodes, import_from_nodes) ==
    [tree |-> tree, import_nodes |-> import_nodes,
     import_from_nodes |-> import_from_nodes, i |-> 1, j |-> 1]

\* mutant: the alias is looked up but never recorded
AnalyzedAddSkipped(done, name) == done

\* self.analyzed.add(name): name is the alias node, an object of the tree
AnalyzedAdd(done, name) == done \cup {name}

InitWalk ==
    /\ ctxs = <<>> /\ nsym = 0 /\ hard = <<>> /\ soft = <<>> /\ err = "none"
    /\ frames = <<>> /\ steps = 0 /\ last = Stmt("", NoNode, NoNode, NoTest)
    /\ enforce_same_type_in_branches = FALSE
    /\ class_to_bases = <<>> /\ LinIdle /\ PropIdle
    /\ ClsIdle /\ FnIdle /\ ConfIdle
    /\ current_method = 0 /\ fstack = <<>> /\ ret = NoRet
    /\ CfgIdle
    /\ rpc = "idle" /\ check = "" /\ log = NoFile /\ core = NoCore
    /\ model = NoModel /\ printed = <<>> /\ written = FALSE
    /\ print_unsat_core = FALSE /\ enable_soft_constraints = FALSE
    /\ imports \in WalkPrograms
    /\ ast_cached \in BOOLEAN
    /\ analyzed = {}
    /\ walked = <<"main">>
    /\ wstack = <<WalkFrame(AstObj("main", 0),
                            NodesOf(imports["main"], "import"),
                            NodesOf(imports["main"], "from"))>>

\* walk(new_ast) is entered from the innermost call; the interpreter raises
\* RecursionError when the calls nest too deep
EnterWalk(module) ==
    IF Len(wstack) >= WalkRecursionLimit
    THEN /\ wstack' = <<>> /\ err' = "RecursionError"
         /\ walked' = walked
    ELSE /\ wstack' = Append(wstack,
               WalkFrame(get_module_ast(module, ast_cached, Len(walked)),
                         NodesOf(imports[module], "import"),
                         NodesOf(imports[module], "from")))
         /\ walked' = Append(walked, module)
         /\ err' = err

WalkUnchanged ==
    UNCHANGED <<ctxs, nsym, hard, soft, frames, steps, last,
                enforce_same_type_in_branches, preVars, clsVars, fnVars,
                confVars, runVars, rpc, check, log, core, model, printed,
                written, print_unsat_core, enable_soft_constraints, cfgVars,
                imports, ast_cached>>

\* lines 54-63: the next import node of the innermost call
WalkImport ==
    /\ wstack # <<>> /\ err = "none"
    /\ LET f == wstack[Len(wstack)]
           name == <<f.tree, f.import_nodes[f.i]>>
           module == imports[f.tree[1]][f.import_nodes[f.i]][2]
           next == [wstack EXCEPT ![Len(wstack)].i = @ + 1]
       IN  /\ f.i <= Len(f.import_nodes)
           /\ IF name \in analyzed
              THEN /\ wstack' = next
                   /\ UNCHANGED <<analyzed, walked, err>>
              ELSE /\ analyzed' = AnalyzedAdd(analyzed, name)
                   /\ EnterWalk(module)
    /\ WalkUnchanged

\* lines 64-72: the next from-import node of the innermost call
WalkImportFrom ==
    /\ wstack # <<>> /\ err = "none"
    /\ LET f == wstack[Len(wstack)]
           module == imports[f.tree[1]][f.import_from_nodes[f.j]][2]
       IN  /\ f.i > Len(f.import_nodes) /\ f.j <= Len(f.import_from_nodes)
           /\ IF module = "typing"
              THEN /\ wstack' = [wstack EXCEPT ![Len(wstack)].j = @ + 1]
                   /\ UNCHANGED <<walked, err>>
              ELSE EnterWalk(module)
           /\ UNCHANGED analyzed
    /\ WalkUnchanged

\* line 73: the innermost call returns; its caller goes on with its next node
WalkReturn ==
    /\ wstack # <<>> /\ err = "none"
    /\ LET f == wstack[Len(wstack)]
           outer == SubSeq(wstack, 1, Len(wstack) - 1)
       IN  /\ f.i > Len(f.import_nodes) /\ f.j > Len(f.import_from_nodes)
           /\ wstack' =
                 IF outer = <<>> THEN outer
                 ELSE LET g == outer[Len(outer)]
                      IN  [outer EXCEPT ![Len(outer)] =
                             IF g.i <= Len(g.import_nodes)
                             THEN [g EXCEPT !.i = @ + 1]
                             ELSE [g EXCEPT !.j = @ + 1]]
    /\ UNCHANGED <<analyzed, walked, err>>
    /\ WalkUnchanged

NextWalk == WalkImport \/ WalkImportFrom \/ WalkReturn

SpecWalk == InitWalk /\ [][NextWalk]_vars

\* the number of calls of walk made for an import of module m
ImportWalks(m) ==
    Cardinality({k \in 2..Len(walked) : walked[k] = m})

\* C30: PreAnalyzer.walk analyses each imported module at most once and
\* terminates for every finite program, including a program in which two
\* modules import each other (by import or by from-import)
C30_AsStated ==
    /\ \A m \in WalkModules : ImportWalks(m) <= 1
    /\ err # "RecursionError"

(* ================== determinism of the pre-analysis ==================== *)
\* the type-parameter lists that runs of analyze_functions on the same AST
\* register for func, one for each order in which the set all_tv_refs can be
\* iterated
RegisteredLists(func) ==
    {[i \in DOMAIN order |-> Lookup(type_vars, <<func.module, order[i]>>)] :
        order \in IterationOrders(
                     AllTvRefs(func, LocalTypeVars(type_vars, func.module)))}

\* C23: running pre-analysis and constraint generation twice on the same AST
\* gives the same result: the content and the position of every registered
\* type-parameter list (and emitted constraint) do not depend on the
\* iteration order of an unordered name set. Two runs that have reached the
\* same function register the same list for it.
C23_AsStated ==
    (tidx > Len(tv_nodes) /\ fidx >= 1 /\ fidx <= Len(functions)) =>
        \A l1, l2 \in RegisteredLists(functions[fidx]) : l1 = l2

(* ===================== statement inferrer: for loops =================== *)
\* the frame of a loop keeps the ast.For node in place of a test: the node
\* has no test attribute, arg holds its target
ForNode(target) == [call |-> "for", arg |-> target, cls |-> ""]

\* mutant: the target is bound in the context of the loop body
_infer_forInBody(target, iter, c, st) ==
    LET iter_type == ExprInferLiteral(iter)
        m == NewZ3Const(st)
        s1 == SolverAdd(m.st, Axiom("for_loop", <<iter_type, m.t>>))
        r == EnterControlFlow(ForNode(target), c, s1)
    IN  IF r.st.err # "none" THEN r
        ELSE [st |-> _infer_assignment_target(target,
                        r.frame[1].body_context, m.t, r.st),
              frame |-> r.frame]

\* _infer_for up to the start of the loop body: the type of the iterable,
\* the target's symbol and the for-loop axiom, the target bound by
\* _infer_assignment_target in context, then _infer_control_flow
_infer_for(target, iter, c, st) ==
    LET iter_type == ExprInferLiteral(iter)
        m == NewZ3Const(st)
        s1 == SolverAdd(m.st, Axiom("for_loop", <<iter_type, m.t>>))
        s2 == _infer_assignment_target(target, c, m.t, s1)
    IN  IF s2.err # "none" THEN [st |-> s2, frame |-> <<>>]
        ELSE EnterControlFlow(ForNode(target), c, s2)

\* loop targets: a name, a tuple with a nested list, a subscript
ForTargets ==
    {Name("x"), TupleN(<<Name("y"), ListN(<<Name("x")>>)>>), Subscript("x")}

\* infer(stmt) for an ast.For / ast.AsyncFor, up to the start of its body
InferFor ==
    \E target \in ForTargets, iter \in {"str"} :
        /\ err = "none" /\ steps < MaxStmts /\ Len(frames) < MaxDepth
        /\ LET r == _infer_for(target, Constant(iter),
                               CurrentContext(frames), Solver)
           IN  /\ Commit(r.st)
               /\ frames' = frames \o r.frame
        /\ steps' = steps + 1
        /\ last' = Stmt("For", target, Constant(iter), NoTest)
        /\ UNCHANGED <<enforce_same_type_in_branches, preVars, extVars>>

\* an assignment of an integer to a name and the deletion of a name, in
\* the module or in a loop
AssignName ==
    /\ InferAssign
    /\ last'.target.k = "Name" /\ last'.value.id = "int"
DeleteName ==
    /\ InferDelete
    /\ last'.target.k = "Name"

InitFor == Init /\ ~enforce_same_type_in_branches

NextFor == InferFor \/ AssignName \/ DeleteName \/ EndBody \/ EndIf

SpecFor == InitFor /\ [][NextFor]_vars

\* C24: for a for/async-for loop, the loop target is bound through the
\* assignment-target logic in the enclosing context (not in a branch context)
\* and before the loop body is inferred, so every loop-target name is bound
\* in the enclosing context after the loop and the body's branch context
\* resolves it through its parent
IsForStart == last'.op = "For" /\ err' = "none"
IsForEnd ==
    /\ last'.op = "EndIf" /\ err' = "none"
    /\ frames[Len(frames)].test.call = "for"
C24_TargetInEnclosing ==
    [][/\ IsForStart =>
            LET c == CurrentContext(frames)
                f == frames'[Len(frames')]
            IN  /\ Len(frames') = Len(frames) + 1 /\ f.phase = "body"
                /\ f.stmts_types = <<>> /\ f.context = c
                /\ \A n \in NamesIn(last'.target) :
                      /\ Has(ctxs'[c].types_map, n)
                      /\ ~Has(ctxs'[f.body_context].types_map, n)
                      /\ ~Has(ctxs'[f.else_context].types_map, n)
                      /\ has_variable(ctxs', f.body_context, n)
                      /\ get_type(ctxs', f.body_context, n)
                            = Lookup(ctxs'[c].types_map, n)
       /\ IsForEnd =>
            LET f == frames[Len(frames)]
            IN  \A n \in NamesIn(f.test.arg) :
                   Has(ctxs'[f.context].types_map, n)]_vars
\* a loop over a tuple target, nested in a loop, has ended: both names are
\* bound in the context of the outer loop's body
C24_Witness ==
    /\ last.op = "EndIf" /\ Len(frames) = 1 /\ err = "none"
    /\ frames[1].test.call = "for" /\ frames[1].phase = "body"
    /\ Keys(ctxs[frames[1].body_context].types_map) = {"x", "y"}
    /\ \E i, j \in DOMAIN hard :
          /\ hard[i].ax = "for_loop" /\ hard[j].ax = "assignment"
          /\ hard[j].args[1].k = "tuple"
          /\ hard[j].args[2] = hard[i].args[2]


(* ============ statement inferrer: C28 handler contexts ================= *)
\* handlers that bind the name e, which no assignment of the module binds
NamedHandlerLists ==
    SeqsUpTo({ExceptHandler("Exception", ""), ExceptHandler("Exception", "e")},
             MaxHandlers)

\* infer(stmt) for an ast.Try whose named handlers bind e
InferTryAs ==
    \E handlers \in NamedHandlerLists :
        /\ err = "none" /\ steps + Len(handlers) < MaxStmts
        /\ Len(frames) + 1 < MaxDepth
        /\ LET r == EnterTry(handlers, CurrentContext(frames), Solver)
           IN  /\ Commit(r.st)
               /\ frames' = frames \o r.frame
        /\ steps' = steps + 1
        /\ last' = Stmt("Try", NoNode, NoNode, NoTest)
        /\ UNCHANGED <<enforce_same_type_in_branches, preVars, extVars>>

\* x = 0 at module level, x = 0 or y = 0 in any block of a try
AssignInBlock ==
    /\ InferAssign
    /\ last'.target \in {Name("x"), Name("y")} /\ last'.value.id = "int"
    /\ frames = <<>> => last'.target = Name("x")

\* a module of assignments and try statements, nested or in sequence
NextHandlers ==
    \/ AssignInBlock \/ InferTryAs
    \/ EndBody \/ EndOrElse \/ EndFinalBody \/ EndHandler

SpecHandlers == InitTry /\ [][NextHandlers]_vars

\* the frame is a try whose handler, being inferred, binds a name
InNamedHandler(f) ==
    f.kind = "Try" /\ f.phase = "handler" /\ f.handler_context # f.context
\* the step just taken began the body of a handler of the innermost try
IsBeginHandler ==
    /\ frames # <<>> /\ TopFrame.kind = "Try" /\ TopFrame.handlers # <<>>
    /\ last'.op \in {"EndFinalBody", "EndHandler"}
\* the step just taken ended the innermost try
IsEndTry ==
    /\ frames # <<>> /\ TopFrame.kind = "Try" /\ TopFrame.handlers = <<>>
    /\ last'.op \in {"EndFinalBody", "EndHandler"}
\* the step just taken assigned to a name
IsAssignName ==
    steps' = steps + 1 /\ last'.op = "Assign" /\ last'.target.k = "Name"

\* C28: in a try, the name a handler binds and the names assigned in the
\* body of a handler that binds a name are bound in that handler's nested
\* context only, the enclosing context's bindings being left as they were by
\* the handler, so that after the try they hold no name that only a handler
\* bound; a name first assigned in the try body, the else body, the finally
\* body or a handler that binds no name is bound in the enclosing context.
C28_HandlerScoping ==
    [][/\ IsBeginHandler =>
            LET f == TopFrame
                h == Head(f.handlers)
                g == frames'[Len(frames')]
            IN  /\ \A c \in DOMAIN ctxs : ctxs'[c] = ctxs[c]
                /\ IF h.name = ""
                   THEN g.handler_context = f.context /\ Len(ctxs') = Len(ctxs)
                   ELSE /\ g.handler_context = Len(ctxs) + 1
                        /\ Len(ctxs') = Len(ctxs) + 1
                        /\ ctxs'[Len(ctxs')].parent_context = f.context
                        /\ Keys(ctxs'[Len(ctxs')].types_map) = {h.name}
       /\ \A i \in DOMAIN frames :
             InNamedHandler(frames[i]) =>
                ctxs'[frames[i].context] = ctxs[frames[i].context]
       /\ IsAssignName /\ frames # <<>> /\ TopFrame.kind = "Try" =>
            LET f == TopFrame
                n == last'.target.id
                c == IF InNamedHandler(f) THEN f.handler_context ELSE f.context
            IN  /\ Has(ctxs'[c].types_map, n)
                /\ \A d \in DOMAIN ctxs : d # c => ctxs'[d] = ctxs[d]
       /\ IsEndTry =>
            LET f == TopFrame
            IN  /\ ctxs' = ctxs
                /\ ~Has(f.entry.types_map, "e") =>
                      ~Has(ctxs[f.context].types_map, "e")]_vars

\* a try is over whose body assigned x and whose one handler bound e and
\* assigned y: the module's context holds x alone, the handler's context e
\* and y
C28_Witness ==
    /\ last.op = "EndHandler" /\ err = "none" /\ frames = <<>>
    /\ Keys(ctxs[1].types_map) = {"x"}
    /\ Len(ctxs) = 2 /\ ctxs[2].parent_context = 1
    /\ Keys(ctxs[2].types_map) = {"e", "y"}

====
